---- MODULE Spec2Model ----
(***************************************************************************)
(* gnet: the elastic buffer (pkg/buffer/elastic), the linked-list buffer   *)
(* (pkg/buffer/linkedlist) it spills into, the ring buffer it fills first, *)
(* and the per-connection event pipeline that owns two elastic buffers.    *)
(*                                                                         *)
(* Bytes are numbered in the order they are written (1, 2, 3, ...), so the *)
(* stream written so far is always <<1, ..., written>> and any loss,       *)
(* duplication or reordering shows in the values.                          *)
(***************************************************************************)
EXTENDS Integers, Sequences, FiniteSets, TLC

\* ------------------------------------------------------------------ bounds
\* Total number of bytes ever handed to the buffer.
MaxBytes == 3
\* Longest slice passed to one Write / returned by one reader call.
MaxLen == 2
\* Largest watermark (maxStaticBytes) tried.
MaxW == 2
\* Capacity exponent of the largest recycled ring the pool hands out.
MaxCapExp == 1

\* Most chunks out of the pool when a ReadFrom is started (a reader may
\* return no bytes and no error, which takes a chunk every time).
MaxChunks == 1

\* math.MaxInt32, what Peek substitutes for n <= 0.
MaxInt32 == 2147483647

VARIABLES
    conn,           \* one accepted connection: its state, buffers and write-interest
    wire,           \* the socket: bytes in flight each way, what the client sent and got
    loop,           \* the owning event loop: its task queue and the engine's state
    cb,             \* which callbacks ran on the connection
    maxStaticBytes, \* elastic.Buffer.maxStaticBytes
    ringBuffer,     \* elastic.Buffer.ringBuffer (held = FALSE is the nil pointer)
    listBuffer,     \* elastic.Buffer.listBuffer
    rbPool,         \* rings taken from rbPool and not yet put back
    bbPool,         \* byte chunks taken from bbPool and not yet put back
    written,        \* number of bytes handed to the buffer so far
    out,            \* bytes that left the buffer: read, written out, discarded or reset
    last            \* the last call: its name, argument and results

bufVars == <<maxStaticBytes, ringBuffer, listBuffer, rbPool, bbPool, written, out, last>>

connVars == <<conn, wire, loop, cb>>

vars == <<conn, wire, loop, cb, maxStaticBytes, ringBuffer, listBuffer, rbPool, bbPool, written, out, last>>

\* ------------------------------------------------------------------ slices
Min(a, b) == IF a < b THEN a ELSE b

\* p[:n]
Take(p, n) == SubSeq(p, 1, Min(n, Len(p)))

\* p[n:]
Drop(p, n) == SubSeq(p, n + 1, Len(p))

RECURSIVE Flatten(_)
\* The concatenation of a [][]byte.
Flatten(bs) == IF bs = <<>> THEN <<>> ELSE Head(bs) \o Flatten(Tail(bs))

RECURSIVE SumLen(_)
\* The total length of a [][]byte.
SumLen(bs) == IF bs = <<>> THEN 0 ELSE Len(Head(bs)) + SumLen(Tail(bs))

\* The n bytes that follow the `from` bytes already written.
Fresh(from, n) == [i \in 1..n |-> from + i]

\* ------------------------------------------------------------------ ring buffer
\* The nil *ring.Buffer.
NilRing == [held |-> FALSE, buf |-> <<>>, size |-> 0, r |-> 0]

\* Capacities of the rings the pool can hand out: a fresh one (0) or a
\* recycled one that grew while some buffer owned it.
RingCaps == {0} \cup {2^i : i \in 1..MaxCapExp}

\* rbPool.Get(): an empty ring of capacity c.
rb_New(c) == [held |-> TRUE, buf |-> <<>>, size |-> c, r |-> 0]

rb_Buffered(rb) == Len(rb.buf)

rb_Len(rb) == rb.size

rb_Available(rb) == rb.size - Len(rb.buf)

rb_IsEmpty(rb) == rb.buf = <<>>

RECURSIVE rb_grow(_, _)
\* Capacity after growing by doubling until `need` bytes fit.
rb_grow(size, need) == IF size >= need THEN size ELSE rb_grow(IF size = 0 THEN 1 ELSE 2 * size, need)

\* Write(p): never fails; grows when p exceeds the free space.
rb_Write(rb, p) ==
    IF p = <<>> THEN rb
    ELSE IF Len(p) > rb_Available(rb)
         THEN [rb EXCEPT !.buf = @ \o p, !.size = rb_grow(@, Len(rb.buf) + Len(p)), !.r = 0]
         ELSE [rb EXCEPT !.buf = @ \o p]

\* The ring after its first n bytes are consumed (n <= Buffered).
rb_advance(rb, n) ==
    IF n >= Len(rb.buf) THEN [rb EXCEPT !.buf = <<>>, !.r = 0]
    ELSE [rb EXCEPT !.buf = Drop(@, n), !.r = (@ + n) % rb.size]

\* Read(p) with len(p) = k: copies min(k, Buffered) bytes.
rb_Read(rb, k) ==
    LET n == Min(k, Len(rb.buf))
    IN [rb |-> rb_advance(rb, n), data |-> Take(rb.buf, n)]

\* Peek(n): (head, tail), the segment up to the end of the region and the
\* wrapped-around segment; all bytes when n <= 0.
rb_Peek(rb, n) ==
    LET m == IF n <= 0 THEN Len(rb.buf) ELSE Min(n, Len(rb.buf))
        c1 == rb.size - rb.r
    IN IF m <= c1 THEN [head |-> Take(rb.buf, m), tail |-> <<>>]
       ELSE [head |-> Take(rb.buf, c1), tail |-> SubSeq(rb.buf, c1 + 1, m)]

\* Discard(n): drops min(n, Buffered) bytes and returns that count.
rb_Discard(rb, n) ==
    IF n <= 0 THEN [rb |-> rb, discarded |-> 0]
    ELSE [rb |-> rb_advance(rb, Min(n, Len(rb.buf))), discarded |-> Min(n, Len(rb.buf))]

rb_Reset(rb) == [rb EXCEPT !.buf = <<>>, !.r = 0]

\* ------------------------------------------------------------------ readers and writers
\* An io.Writer: it accepts `budget` more bytes; the Write call that uses up
\* the budget returns an error when `failing`, and a short count with a nil
\* error otherwise.
Writers == [budget : 0..MaxBytes, failing : BOOLEAN]

\* w.Write(b): the bytes accepted, the error, and the writer afterwards.
w_Write(w, b) ==
    LET m == Min(Len(b), w.budget)
    IN [m |-> m, err |-> IF w.failing /\ m = w.budget THEN "error" ELSE "nil", w |-> [w EXCEPT !.budget = @ - m]]

\* An io.Reader: the results of its successive Read calls, each (m, err).
ReadResults == [m : 0..MaxLen, err : {"nil", "EOF", "error"}]


\* Scripts of a reader whose last call, and only that one, returns io.EOF or
\* another error, so that a loop reading until then terminates.
Readers ==
    {<<x>> : x \in {y \in ReadResults : y.err # "nil"}}
    \cup {<<x, y>> : x \in {z \in ReadResults : z.err = "nil"}, y \in {z \in ReadResults : z.err # "nil" /\ z.m <= 1}}

\* WriteTo(w): offers the head segment and then the wrapped segment; the
\* bytes w accepted leave the ring.
rb_WriteTo(rb, w) ==
    IF rb.buf = <<>> THEN [rb |-> rb, n |-> 0, err |-> "nil", w |-> w, data |-> <<>>]
    ELSE LET pk == rb_Peek(rb, 0)
             r1 == w_Write(w, pk.head)
             r2 == IF r1.err = "nil" /\ r1.m = Len(pk.head) /\ pk.tail # <<>>
                   THEN w_Write(r1.w, pk.tail)
                   ELSE [m |-> 0, err |-> r1.err, w |-> r1.w]
             n == r1.m + r2.m
         IN [rb |-> rb_advance(rb, n), n |-> n,
             err |-> IF r2.err # "nil" THEN r2.err ELSE IF n < Len(rb.buf) THEN "short" ELSE "nil",
             w |-> r2.w, data |-> Take(rb.buf, n)]

\* ReadFrom(r): one Read call of r, whose bytes (numbered from `from`) are
\* appended, growing the ring when needed.
rb_ReadFrom(rb, rd, from) ==
    LET res == Head(rd)
    IN [rb |-> rb_Write(rb, Fresh(from, res.m)), n |-> res.m,
        err |-> IF res.err = "EOF" THEN "nil" ELSE res.err]

\* ------------------------------------------------------------------ linked-list buffer
\* A chunk is the byte slice Buf.B of a node; the list is the chain from
\* head to tail. The scratch slice llb.bs is what the Peek operators return.
llb_Empty == [chunks |-> <<>>, size |-> 0, bytes |-> 0]

llb_Len(llb) == llb.size

llb_Buffered(llb) == llb.bytes

\* llb.head == nil
llb_IsEmpty(llb) == llb.chunks = <<>>

\* Pop: ok = FALSE stands for the nil result.
llb_Pop(llb) ==
    IF llb.chunks = <<>> THEN [llb |-> llb, ok |-> FALSE, b |-> <<>>]
    ELSE [llb |-> [chunks |-> Tail(llb.chunks), size |-> llb.size - 1, bytes |-> llb.bytes - Len(Head(llb.chunks))],
          ok |-> TRUE, b |-> Head(llb.chunks)]

\* Mutant of llb_PushFront: the bytes counter is left as it was.
llb_PushFront_noBytes(llb, b) == [llb EXCEPT !.chunks = <<b>> \o @, !.size = @ + 1]

llb_PushFront(llb, b) == [chunks |-> <<b>> \o llb.chunks, size |-> llb.size + 1, bytes |-> llb.bytes + Len(b)]

llb_PushBack(llb, b) == [chunks |-> Append(llb.chunks, b), size |-> llb.size + 1, bytes |-> llb.bytes + Len(b)]

\* PushBytesFront(p): a chunk from the pool, filled with p, at the head.
llb_PushBytesFront(s, p) ==
    IF Len(p) = 0 THEN s
    ELSE [s EXCEPT !.listBuffer = llb_PushFront(@, p), !.bbPool = @ + 1]

\* PushBytesBack(p): a chunk from the pool, filled with p, at the tail.
llb_PushBytesBack(s, p) ==
    IF Len(p) = 0 THEN s
    ELSE [s EXCEPT !.listBuffer = llb_PushBack(@, p), !.bbPool = @ + 1]

RECURSIVE llb_ReadLoop_dropRest(_, _, _)
\* Mutant of llb_ReadLoop: a chunk copied in part is not pushed back.
llb_ReadLoop_dropRest(s, k, acc) ==
    LET pp == llb_Pop(s.listBuffer)
        m == Min(k - Len(acc), Len(pp.b))
        acc2 == acc \o Take(pp.b, m)
        s1 == [s EXCEPT !.listBuffer = pp.llb, !.bbPool = @ - 1]
    IN IF ~pp.ok THEN [s |-> s, data |-> acc]
       ELSE IF Len(acc2) = k THEN [s |-> s1, data |-> acc2]
       ELSE llb_ReadLoop_dropRest(s1, k, acc2)

RECURSIVE llb_ReadLoop(_, _, _)
\* The loop of Read: acc is p[:n], k is len(p).
llb_ReadLoop(s, k, acc) ==
    LET pp == llb_Pop(s.listBuffer)
        m == Min(k - Len(acc), Len(pp.b))
        acc2 == acc \o Take(pp.b, m)
        s1 == IF m < Len(pp.b)
              THEN [s EXCEPT !.listBuffer = llb_PushFront(pp.llb, Drop(pp.b, m))]
              ELSE [s EXCEPT !.listBuffer = pp.llb, !.bbPool = @ - 1]
    IN IF ~pp.ok THEN [s |-> s, data |-> acc]
       ELSE IF Len(acc2) = k THEN [s |-> s1, data |-> acc2]
       ELSE llb_ReadLoop(s1, k, acc2)

\* Read(p) with len(p) = k; n is Len(data).
llb_Read(s, k) == IF k = 0 THEN [s |-> s, data |-> <<>>] ELSE llb_ReadLoop(s, k, <<>>)

RECURSIVE llb_peekIter(_, _, _, _)
\* for iter := llb.head; iter != nil; iter = iter.next
llb_peekIter(chunks, maxBytes, cum, bs) ==
    IF chunks = <<>> THEN bs
    ELSE IF cum + Len(Head(chunks)) >= maxBytes THEN Append(bs, Head(chunks))
    ELSE llb_peekIter(Tail(chunks), maxBytes, cum + Len(Head(chunks)), Append(bs, Head(chunks)))

llb_PeekBytesList(llb, maxBytes) ==
    llb_peekIter(llb.chunks, IF maxBytes <= 0 THEN MaxInt32 ELSE maxBytes, 0, <<>>)

RECURSIVE llb_peekGiven(_, _, _, _)
\* for _, b := range bs: the non-empty slices given; done when maxBytes is met.
llb_peekGiven(given, maxBytes, cum, bs) ==
    IF given = <<>> THEN [bs |-> bs, cum |-> cum, done |-> FALSE]
    ELSE IF Len(Head(given)) = 0 THEN llb_peekGiven(Tail(given), maxBytes, cum, bs)
    ELSE IF cum + Len(Head(given)) >= maxBytes THEN [bs |-> Append(bs, Head(given)), cum |-> cum + Len(Head(given)), done |-> TRUE]
    ELSE llb_peekGiven(Tail(given), maxBytes, cum + Len(Head(given)), Append(bs, Head(given)))

llb_PeekBytesListWithBytes(llb, maxBytes, given) ==
    LET mx == IF maxBytes <= 0 THEN MaxInt32 ELSE maxBytes
        g == llb_peekGiven(given, mx, 0, <<>>)
    IN IF g.done THEN g.bs ELSE llb_peekIter(llb.chunks, mx, g.cum, g.bs)

RECURSIVE llb_DiscardLoop(_, _, _)
\* for n != 0
llb_DiscardLoop(s, n, discarded) ==
    LET pp == llb_Pop(s.listBuffer)
    IN IF n = 0 \/ ~pp.ok THEN [s |-> s, discarded |-> discarded]
       ELSE IF n < Len(pp.b)
            THEN [s |-> [s EXCEPT !.listBuffer = llb_PushFront(pp.llb, Drop(pp.b, n))], discarded |-> discarded + n]
       ELSE llb_DiscardLoop([s EXCEPT !.listBuffer = pp.llb, !.bbPool = @ - 1], n - Len(pp.b), discarded + Len(pp.b))

llb_Discard(s, n) == IF n <= 0 THEN [s |-> s, discarded |-> 0] ELSE llb_DiscardLoop(s, n, 0)

RECURSIVE llb_ReadFromLoop(_, _, _, _)
\* The loop of ReadFrom: each turn takes a chunk from the pool and reads into
\* it; the chunk is put back on io.EOF and on error, and appended otherwise.
llb_ReadFromLoop(s, rd, from, n) ==
    LET res == Head(rd)
    IN IF res.err = "EOF" THEN [s |-> s, n |-> n + res.m, err |-> "nil"]
       ELSE IF res.err # "nil" THEN [s |-> s, n |-> n + res.m, err |-> res.err]
       ELSE llb_ReadFromLoop([s EXCEPT !.listBuffer = llb_PushBack(@, Fresh(from + n, res.m)), !.bbPool = @ + 1],
                             Tail(rd), from, n + res.m)

llb_ReadFrom(s, rd, from) == llb_ReadFromLoop(s, rd, from, 0)

RECURSIVE llb_WriteToLoop_dropRest(_, _, _)
\* Mutant of llb_WriteToLoop: after a short write the rest of the chunk is
\* not pushed back.
llb_WriteToLoop_dropRest(s, w, acc) ==
    LET pp == llb_Pop(s.listBuffer)
        r == w_Write(w, pp.b)
        acc2 == acc \o Take(pp.b, r.m)
        s1 == [s EXCEPT !.listBuffer = pp.llb]
    IN IF ~pp.ok THEN [s |-> s, n |-> Len(acc), err |-> "nil", w |-> w, data |-> acc]
       ELSE IF r.err # "nil" THEN [s |-> s1, n |-> Len(acc2), err |-> r.err, w |-> r.w, data |-> acc2]
       ELSE IF r.m < Len(pp.b)
            THEN [s |-> s1, n |-> Len(acc2), err |-> "short", w |-> r.w, data |-> acc2]
       ELSE llb_WriteToLoop_dropRest(s1, r.w, acc2)

RECURSIVE llb_WriteToLoop(_, _, _)
\* The loop of WriteTo: acc is what w accepted so far (n = Len(acc)).
llb_WriteToLoop(s, w, acc) ==
    LET pp == llb_Pop(s.listBuffer)
        r == w_Write(w, pp.b)
        acc2 == acc \o Take(pp.b, r.m)
        s1 == [s EXCEPT !.listBuffer = pp.llb]
    IN IF ~pp.ok THEN [s |-> s, n |-> Len(acc), err |-> "nil", w |-> w, data |-> acc]
       ELSE IF r.err # "nil" THEN [s |-> s1, n |-> Len(acc2), err |-> r.err, w |-> r.w, data |-> acc2]
       ELSE IF r.m < Len(pp.b)
            THEN [s |-> [s EXCEPT !.listBuffer = llb_PushFront(pp.llb, Drop(pp.b, r.m))],
                  n |-> Len(acc2), err |-> "short", w |-> r.w, data |-> acc2]
       ELSE llb_WriteToLoop(s1, r.w, acc2)

llb_WriteTo(s, w) == llb_WriteToLoop(s, w, <<>>)

RECURSIVE llb_ResetLoop(_)
\* for b := llb.Pop(); b != nil; b = llb.Pop() { bbPool.Put(b.Buf) }
llb_ResetLoop(s) ==
    LET pp == llb_Pop(s.listBuffer)
    IN IF ~pp.ok THEN s ELSE llb_ResetLoop([s EXCEPT !.listBuffer = pp.llb, !.bbPool = @ - 1])

llb_Reset(s) == [llb_ResetLoop(s) EXCEPT !.listBuffer = llb_Empty]


\* ------------------------------------------------------------------ elastic buffer
\* The buffer and the two pools it draws on, as one value the operations map.
State == [maxStaticBytes |-> maxStaticBytes, ringBuffer |-> ringBuffer, listBuffer |-> listBuffer,
          rbPool |-> rbPool, bbPool |-> bbPool]

\* New(maxStaticBytes), the pool handing out a ring of capacity c.
mb_New(W, c) == [maxStaticBytes |-> W, ringBuffer |-> rb_New(c), listBuffer |-> llb_Empty, rbPool |-> 1, bbPool |-> 0]

\* Mutant of mb_putRing: the ring goes back to the pool and stays in the
\* buffer's field.
mb_putRing_kept(s) == [s EXCEPT !.rbPool = @ - 1]

\* rbPool.Put(mb.ringBuffer); mb.ringBuffer = nil
mb_putRing(s) == [s EXCEPT !.ringBuffer = NilRing, !.rbPool = @ - 1]

\* Mutant of mb_getRing: a ring is taken whenever none is held, also when the
\* list holds chunks.
mb_getRing_noListTest(s, c) ==
    IF ~s.ringBuffer.held
    THEN [s EXCEPT !.ringBuffer = rb_New(c), !.rbPool = @ + 1]
    ELSE s

\* if mb.ringBuffer == nil && mb.listBuffer.IsEmpty() { mb.ringBuffer = rbPool.Get() }
mb_getRing(s, c) ==
    IF ~s.ringBuffer.held /\ llb_IsEmpty(s.listBuffer)
    THEN [s EXCEPT !.ringBuffer = rb_New(c), !.rbPool = @ + 1]
    ELSE s

\* Mutant of mb_putIfEmpty: an emptied ring is kept.
mb_putIfEmpty_kept(s) == s

\* if mb.ringBuffer.IsEmpty() { rbPool.Put(mb.ringBuffer); mb.ringBuffer = nil }
mb_putIfEmpty(s) == IF rb_IsEmpty(s.ringBuffer) THEN mb_putRing(s) ELSE s

\* The list is chosen whatever the ring holds.
mb_toList_always(s) == TRUE

\* !mb.listBuffer.IsEmpty() || mb.ringBuffer.Buffered() >= mb.maxStaticBytes
mb_toList(s) == ~llb_IsEmpty(s.listBuffer) \/ rb_Buffered(s.ringBuffer) >= s.maxStaticBytes

\* Mutant of mb_Buffered: the ring's bytes are not counted.
mb_Buffered_listOnly(s) == llb_Buffered(s.listBuffer)

mb_Buffered(s) ==
    IF ~s.ringBuffer.held THEN llb_Buffered(s.listBuffer)
    ELSE rb_Buffered(s.ringBuffer) + llb_Buffered(s.listBuffer)

\* Mutant of mb_IsEmpty: only the list is looked at.
mb_IsEmpty_listOnly(s) == llb_IsEmpty(s.listBuffer)

mb_IsEmpty(s) ==
    IF ~s.ringBuffer.held THEN llb_IsEmpty(s.listBuffer)
    ELSE rb_IsEmpty(s.ringBuffer) /\ llb_IsEmpty(s.listBuffer)

\* Read(p) with len(p) = k; n is Len(data).
mb_Read(s, k) ==
    IF ~s.ringBuffer.held THEN llb_Read(s, k)
    ELSE LET r == rb_Read(s.ringBuffer, k)
             s1 == mb_putIfEmpty([s EXCEPT !.ringBuffer = r.rb])
             l == llb_Read(s1, k - Len(r.data))
         IN IF Len(r.data) = k THEN [s |-> s1, data |-> r.data]
            ELSE [s |-> l.s, data |-> r.data \o l.data]

\* Mutant of mb_Peek: the ring's slices are returned whenever the ring holds
\* any byte, also when it holds fewer than n.
mb_Peek_ringOnly(s, n) ==
    IF ~s.ringBuffer.held THEN llb_PeekBytesList(s.listBuffer, n)
    ELSE LET n1 == IF n <= 0 THEN MaxInt32 ELSE n
             pk == rb_Peek(s.ringBuffer, n1)
         IN IF rb_Buffered(s.ringBuffer) > 0 THEN <<pk.head, pk.tail>>
            ELSE llb_PeekBytesListWithBytes(s.listBuffer, n1, <<pk.head, pk.tail>>)

\* Peek(n): the slices returned.
mb_Peek(s, n) ==
    IF ~s.ringBuffer.held THEN llb_PeekBytesList(s.listBuffer, n)
    ELSE LET n1 == IF n <= 0 THEN MaxInt32 ELSE n
             pk == rb_Peek(s.ringBuffer, n1)
         IN IF rb_Buffered(s.ringBuffer) >= n1 THEN <<pk.head, pk.tail>>
            ELSE llb_PeekBytesListWithBytes(s.listBuffer, n1, <<pk.head, pk.tail>>)

\* Mutant of mb_Discard: n -= rbLen is forgotten before the list is discarded.
mb_Discard_noSub(s, n) ==
    IF ~s.ringBuffer.held THEN llb_Discard(s, n)
    ELSE LET rbLen == rb_Buffered(s.ringBuffer)
             d == rb_Discard(s.ringBuffer, n)
             s1 == [s EXCEPT !.ringBuffer = d.rb]
             l == llb_Discard(mb_putRing(s1), n)
         IN IF n <= rbLen
            THEN [s |-> IF n = rbLen THEN mb_putRing(s1) ELSE s1, discarded |-> d.discarded]
            ELSE [s |-> l.s, discarded |-> d.discarded + l.discarded]

\* Mutant of mb_Discard: the count discarded from the list is not added.
mb_Discard_noAdd(s, n) ==
    IF ~s.ringBuffer.held THEN llb_Discard(s, n)
    ELSE LET rbLen == rb_Buffered(s.ringBuffer)
             d == rb_Discard(s.ringBuffer, n)
             s1 == [s EXCEPT !.ringBuffer = d.rb]
             l == llb_Discard(mb_putRing(s1), n - rbLen)
         IN IF n <= rbLen
            THEN [s |-> IF n = rbLen THEN mb_putRing(s1) ELSE s1, discarded |-> d.discarded]
            ELSE [s |-> l.s, discarded |-> d.discarded]

\* Mutant of mb_Discard: the emptied ring stays with the buffer when n
\* reaches into the list.
mb_Discard_keepRing(s, n) ==
    IF ~s.ringBuffer.held THEN llb_Discard(s, n)
    ELSE LET rbLen == rb_Buffered(s.ringBuffer)
             d == rb_Discard(s.ringBuffer, n)
             s1 == [s EXCEPT !.ringBuffer = d.rb]
             l == llb_Discard(s1, n - rbLen)
         IN IF n <= rbLen
            THEN [s |-> IF n = rbLen THEN mb_putRing(s1) ELSE s1, discarded |-> d.discarded]
            ELSE [s |-> l.s, discarded |-> d.discarded + l.discarded]

\* Discard(n)
mb_Discard(s, n) ==
    IF ~s.ringBuffer.held THEN llb_Discard(s, n)
    ELSE LET rbLen == rb_Buffered(s.ringBuffer)
             d == rb_Discard(s.ringBuffer, n)
             s1 == [s EXCEPT !.ringBuffer = d.rb]
             l == llb_Discard(mb_putRing(s1), n - rbLen)
         IN IF n <= rbLen
            THEN [s |-> IF n = rbLen THEN mb_putRing(s1) ELSE s1, discarded |-> d.discarded]
            ELSE [s |-> l.s, discarded |-> d.discarded + l.discarded]

\* Mutant of mb_Write: once the list is in use, p is pushed at its front.
mb_Write_spillFront(s, p, c) ==
    LET s0 == mb_getRing(s, c)
        writable == rb_Available(s0.ringBuffer)
    IN IF mb_toList(s0) THEN [s |-> llb_PushBytesFront(s0, p), n |-> Len(p), err |-> "nil"]
       ELSE IF rb_Len(s0.ringBuffer) >= s0.maxStaticBytes /\ Len(p) > writable
            THEN [s |-> llb_PushBytesBack([s0 EXCEPT !.ringBuffer = rb_Write(@, Take(p, writable))], Drop(p, writable)),
                  n |-> Len(p), err |-> "nil"]
       ELSE [s |-> [s0 EXCEPT !.ringBuffer = rb_Write(@, p)], n |-> Len(p), err |-> "nil"]

\* Mutant of mb_Write: when p overflows the ring, the part that does not fit
\* is not appended to the list.
mb_Write_dropSpill(s, p, c) ==
    LET s0 == mb_getRing(s, c)
        writable == rb_Available(s0.ringBuffer)
    IN IF mb_toList(s0) THEN [s |-> llb_PushBytesBack(s0, p), n |-> Len(p), err |-> "nil"]
       ELSE IF rb_Len(s0.ringBuffer) >= s0.maxStaticBytes /\ Len(p) > writable
            THEN [s |-> [s0 EXCEPT !.ringBuffer = rb_Write(@, Take(p, writable))], n |-> Len(p), err |-> "nil"]
       ELSE [s |-> [s0 EXCEPT !.ringBuffer = rb_Write(@, p)], n |-> Len(p), err |-> "nil"]

\* Write that puts all of p in the ring whatever the ring holds.
mb_Write_allRing(s, p, c) ==
    LET s0 == mb_getRing(s, c)
    IN IF ~llb_IsEmpty(s0.listBuffer) THEN [s |-> llb_PushBytesBack(s0, p), n |-> Len(p), err |-> "nil"]
       ELSE [s |-> [s0 EXCEPT !.ringBuffer = rb_Write(@, p)], n |-> Len(p), err |-> "nil"]

\* Write(p), the pool handing out a ring of capacity c if one is acquired.
mb_Write(s, p, c) ==
    LET s0 == mb_getRing(s, c)
        writable == rb_Available(s0.ringBuffer)
    IN IF mb_toList(s0) THEN [s |-> llb_PushBytesBack(s0, p), n |-> Len(p), err |-> "nil"]
       ELSE IF rb_Len(s0.ringBuffer) >= s0.maxStaticBytes /\ Len(p) > writable
            THEN [s |-> llb_PushBytesBack([s0 EXCEPT !.ringBuffer = rb_Write(@, Take(p, writable))], Drop(p, writable)),
                  n |-> Len(p), err |-> "nil"]
       ELSE [s |-> [s0 EXCEPT !.ringBuffer = rb_Write(@, p)], n |-> Len(p), err |-> "nil"]

RECURSIVE mb_writevAll(_, _)
\* for _, b := range bs { mb.listBuffer.PushBytesBack(b) }
mb_writevAll(s, bs) == IF bs = <<>> THEN s ELSE mb_writevAll(llb_PushBytesBack(s, Head(bs)), Tail(bs))

RECURSIVE mb_writevFill(_, _, _, _, _)
\* for i, b := range bs: bs[i] goes to the ring while it fits in `writable`;
\* the first one that does not is split and ends the loop. pos is the index
\* (from 1) of the last slice visited, cum the lengths added so far.
mb_writevFill(s, bs, i, writable, cum) ==
    IF i > Len(bs) THEN [s |-> s, pos |-> Len(bs), cum |-> cum]
    ELSE IF Len(bs[i]) > writable
         THEN [s |-> llb_PushBytesBack([s EXCEPT !.ringBuffer = rb_Write(@, Take(bs[i], writable))], Drop(bs[i], writable)),
               pos |-> i, cum |-> cum + Len(bs[i])]
    ELSE mb_writevFill([s EXCEPT !.ringBuffer = rb_Write(@, bs[i])], bs, i + 1, writable - Len(bs[i]), cum + Len(bs[i]))

\* Writev(bs), the pool handing out a ring of capacity c if one is acquired.
mb_Writev(s, bs, c) ==
    LET s0 == mb_getRing(s, c)
        writable == IF rb_Len(s0.ringBuffer) < s0.maxStaticBytes
                    THEN s0.maxStaticBytes - rb_Buffered(s0.ringBuffer)
                    ELSE rb_Available(s0.ringBuffer)
        f == mb_writevFill(s0, bs, 1, writable, 0)
        rest == SubSeq(bs, f.pos + 1, Len(bs))
    IN IF mb_toList(s0) THEN [s |-> mb_writevAll(s0, bs), n |-> SumLen(bs), err |-> "nil"]
       ELSE [s |-> mb_writevAll(f.s, rest), n |-> f.cum + SumLen(rest), err |-> "nil"]

RECURSIVE mb_writeEach(_, _, _)
\* for _, b := range bs { mb.Write(b) }: Write called on each element in order.
mb_writeEach(s, bs, c) ==
    IF bs = <<>> THEN [s |-> s, n |-> 0, err |-> "nil"]
    ELSE LET w == mb_Write(s, Head(bs), c)
             r == mb_writeEach(w.s, Tail(bs), c)
         IN [s |-> r.s, n |-> w.n + r.n, err |-> "nil"]

\* ReadFrom(r): r's bytes are numbered from `from`.
mb_ReadFrom(s, rd, c, from) ==
    LET s0 == mb_getRing(s, c)
        r == rb_ReadFrom(s0.ringBuffer, rd, from)
    IN IF mb_toList(s0) THEN llb_ReadFrom(s0, rd, from)
       ELSE [s |-> [s0 EXCEPT !.ringBuffer = r.rb], n |-> r.n, err |-> r.err]

mb_WriteTo(s, w) ==
    IF ~s.ringBuffer.held THEN llb_WriteTo(s, w)
    ELSE LET r == rb_WriteTo(s.ringBuffer, w)
             s1 == mb_putIfEmpty([s EXCEPT !.ringBuffer = r.rb])
             l == llb_WriteTo(s1, r.w)
         IN IF r.err # "nil" THEN [s |-> s1, n |-> r.n, err |-> r.err, w |-> r.w, data |-> r.data]
            ELSE [s |-> l.s, n |-> r.n + l.n, err |-> l.err, w |-> l.w, data |-> r.data \o l.data]

\* Reset(maxStaticBytes)
mb_Reset(s, W) ==
    LET s1 == IF s.ringBuffer.held THEN [s EXCEPT !.ringBuffer = rb_Reset(@)] ELSE s
        s2 == llb_Reset(s1)
    IN IF W > 0 THEN [s2 EXCEPT !.maxStaticBytes = W] ELSE s2

\* Mutant of mb_Release: the ring is kept.
mb_Release_keepRing(s) == llb_Reset(s)

mb_Release(s) == llb_Reset(IF s.ringBuffer.held THEN mb_putRing(s) ELSE s)

\* The buffered bytes in FIFO order: the ring's, then the list's chunks.
Content(s) == s.ringBuffer.buf \o Flatten(s.listBuffer.chunks)


\* ------------------------------------------------------------------ calls on one elastic buffer
\* The record of a call: its name, its argument (a length or a count), the
\* count it returned, its error, and what it found when invoked: whether a
\* ring was held and how many bytes the ring and the list held.
Call(op, n, ret, err) ==
    [op |-> op, n |-> n, ret |-> ret, err |-> err,
     held |-> ringBuffer.held, rb |-> Len(ringBuffer.buf), lb |-> listBuffer.bytes]

\* The buffer and the pools become s.
Commit(s) ==
    /\ maxStaticBytes' = s.maxStaticBytes
    /\ ringBuffer' = s.ringBuffer
    /\ listBuffer' = s.listBuffer
    /\ rbPool' = s.rbPool
    /\ bbPool' = s.bbPool

\* The capacities the pool can answer a call with: only a call that finds no
\* ring held and the list empty takes a ring.
Caps(s) == IF ~s.ringBuffer.held /\ llb_IsEmpty(s.listBuffer) THEN RingCaps ELSE {0}

\* The slices a caller can pass to Writev: up to two, numbered from `from`.
Vectors(from, room) ==
    {<<>>}
    \cup {<<Fresh(from, a)>> : a \in 0..Min(MaxLen, room)}
    \cup {<<Fresh(from, a), Fresh(from + a, b)>> : a \in 0..Min(MaxLen, room), b \in 0..Min(MaxLen, room)}

\* The bytes a reader script hands over in all.
RECURSIVE ReaderBytes(_)
ReaderBytes(rd) == IF rd = <<>> THEN 0 ELSE Head(rd).m + ReaderBytes(Tail(rd))

\* The buffer and the pools are s, no call made yet.
Fresh0(s) ==
    /\ maxStaticBytes = s.maxStaticBytes
    /\ ringBuffer = s.ringBuffer
    /\ listBuffer = s.listBuffer
    /\ rbPool = s.rbPool
    /\ bbPool = s.bbPool
    /\ written = 0
    /\ out = <<>>
    /\ last = [op |-> "New", n |-> s.maxStaticBytes, ret |-> 0, err |-> "nil", held |-> FALSE, rb |-> 0, lb |-> 0]

\* An elastic buffer that holds nothing: no ring, no chunk.
Void == [maxStaticBytes |-> 1, ringBuffer |-> NilRing, listBuffer |-> llb_Empty, rbPool |-> 0, bbPool |-> 0]

\* No connection: the state of the connection pipeline while a buffer is
\* exercised on its own.
NoConn ==
    /\ conn = [state |-> "INIT", inbound |-> Void, outbound |-> Void, armed |-> FALSE]
    /\ wire = [c2s |-> <<>>, s2c |-> <<>>, sent |-> 0, recv |-> <<>>, peer |-> "open"]
    /\ loop = [tasks |-> <<>>, engine |-> "running"]
    /\ cb = [connected |-> 0, disconnected |-> 0, traffic |-> FALSE, early |-> FALSE, late |-> FALSE, flushed |-> FALSE]

\* New(W) for a watermark W > 0.
BufInit == NoConn /\ \E W \in 1..MaxW, c \in RingCaps : Fresh0(mb_New(W, c))

Write ==
    \E n \in 0..Min(MaxLen, MaxBytes - written), c \in Caps(State) :
        LET r == mb_Write(State, Fresh(written, n), c)
        IN /\ Commit(r.s)
           /\ written' = written + n
           /\ last' = Call("Write", n, r.n, r.err)
           /\ UNCHANGED <<out, connVars>>

Writev ==
    \E bs \in Vectors(written, MaxBytes - written), c \in Caps(State) :
        /\ SumLen(bs) <= MaxBytes - written
        /\ LET r == mb_Writev(State, bs, c)
           IN /\ Commit(r.s)
              /\ written' = written + SumLen(bs)
              /\ last' = Call("Writev", SumLen(bs), r.n, r.err)
              /\ UNCHANGED <<out, connVars>>

Read ==
    \E k \in 0..MaxBytes :
        LET r == mb_Read(State, k)
        IN /\ Commit(r.s)
           /\ out' = out \o r.data
           /\ last' = Call("Read", k, Len(r.data), "nil")
           /\ UNCHANGED <<written, connVars>>

\* Mutant of Peek: the bytes peeked are consumed, as Read does.
Peek_consuming ==
    \E n \in -1..MaxBytes :
        /\ Commit(mb_Read(State, SumLen(mb_Peek(State, n))).s)
        /\ last' = Call("Peek", n, SumLen(mb_Peek(State, n)), "nil")
        /\ UNCHANGED <<written, out, connVars>>

Peek ==
    \E n \in -1..MaxBytes :
        /\ last' = Call("Peek", n, SumLen(mb_Peek(State, n)), "nil")
        /\ UNCHANGED <<maxStaticBytes, ringBuffer, listBuffer, rbPool, bbPool, written, out, connVars>>

Discard ==
    \E n \in -1..(MaxBytes + 1) :
        LET r == mb_Discard(State, n)
        IN /\ Commit(r.s)
           /\ out' = out \o Take(Content(State), r.discarded)
           /\ last' = Call("Discard", n, r.discarded, "nil")
           /\ UNCHANGED <<written, connVars>>

WriteTo ==
    \E w \in Writers :
        LET r == mb_WriteTo(State, w)
        IN /\ Commit(r.s)
           /\ out' = out \o r.data
           /\ last' = Call("WriteTo", w.budget, r.n, r.err)
           /\ UNCHANGED <<written, connVars>>

ReadFrom ==
    \E rd \in Readers, c \in Caps(State) :
        /\ ReaderBytes(rd) <= MaxBytes - written
        /\ bbPool < MaxChunks
        /\ LET r == mb_ReadFrom(State, rd, c, written)
           IN /\ Commit(r.s)
              /\ written' = written + r.n
              /\ last' = Call("ReadFrom", Len(rd), r.n, r.err)
              /\ UNCHANGED <<out, connVars>>

Reset ==
    \E W \in 0..MaxW :
        /\ Commit(mb_Reset(State, W))
        /\ out' = out \o Content(State)
        /\ last' = Call("Reset", W, 0, "nil")
        /\ UNCHANGED <<written, connVars>>

Release ==
    /\ Commit(mb_Release(State))
    /\ out' = out \o Content(State)
    /\ last' = Call("Release", 0, 0, "nil")
    /\ UNCHANGED <<written, connVars>>

\* Every call on the elastic buffer.
Next == Write \/ Writev \/ Read \/ Peek \/ Discard \/ WriteTo \/ ReadFrom \/ Reset \/ Release

Spec == BufInit /\ [][Next]_vars

\* The calls that move bytes through the buffer without dropping any.
FifoNext == Write \/ Writev \/ Read \/ Discard \/ WriteTo

FifoSpec == BufInit /\ [][FifoNext]_vars

\* The record of a call on the list alone: as Call, with the number of chunks
\* the list held when invoked.
ListCall(op, n, ret, err) ==
    [op |-> op, n |-> n, ret |-> ret, err |-> err,
     held |-> FALSE, rb |-> 0, lb |-> listBuffer.bytes, size |-> listBuffer.size]


\* ------------------------------------------------------------------ the linked-list buffer on its own
\* A zero-value linkedlist.Buffer: no ring is involved.
ListInit ==
    /\ NoConn
    /\ Fresh0([maxStaticBytes |-> 1, ringBuffer |-> NilRing, listBuffer |-> llb_Empty, rbPool |-> 0, bbPool |-> 0])

PushBytesBack ==
    \E n \in 0..Min(MaxLen, MaxBytes - written) :
        /\ Commit(llb_PushBytesBack(State, Fresh(written, n)))
        /\ written' = written + n
        /\ last' = ListCall("PushBytesBack", n, 0, "nil")
        /\ UNCHANGED <<out, connVars>>

PushBytesFront ==
    \E n \in 0..Min(MaxLen, MaxBytes - written) :
        /\ Commit(llb_PushBytesFront(State, Fresh(written, n)))
        /\ written' = written + n
        /\ last' = ListCall("PushBytesFront", n, 0, "nil")
        /\ UNCHANGED <<out, connVars>>

ListRead ==
    \E k \in 0..MaxBytes :
        LET r == llb_Read(State, k)
        IN /\ Commit(r.s)
           /\ out' = out \o r.data
           /\ last' = ListCall("Read", k, Len(r.data), "nil")
           /\ UNCHANGED <<written, connVars>>

ListDiscard ==
    \E n \in -1..(MaxBytes + 1) :
        LET r == llb_Discard(State, n)
        IN /\ Commit(r.s)
           /\ out' = out \o Take(Content(State), r.discarded)
           /\ last' = ListCall("Discard", n, r.discarded, "nil")
           /\ UNCHANGED <<written, connVars>>

ListWriteTo ==
    \E w \in Writers :
        LET r == llb_WriteTo(State, w)
        IN /\ Commit(r.s)
           /\ out' = out \o r.data
           /\ last' = ListCall("WriteTo", w.budget, r.n, r.err)
           /\ UNCHANGED <<written, connVars>>

ListReadFrom ==
    \E rd \in Readers :
        /\ ReaderBytes(rd) <= MaxBytes - written
        /\ bbPool < MaxChunks
        /\ LET r == llb_ReadFrom(State, rd, written)
           IN /\ Commit(r.s)
              /\ written' = written + r.n
              /\ last' = ListCall("ReadFrom", Len(rd), r.n, r.err)
              /\ UNCHANGED <<out, connVars>>

ListReset ==
    /\ Commit(llb_Reset(State))
    /\ out' = out \o Content(State)
    /\ last' = ListCall("Reset", 0, 0, "nil")
    /\ UNCHANGED <<written, connVars>>

ListNext == PushBytesBack \/ PushBytesFront \/ ListRead \/ ListDiscard \/ ListWriteTo \/ ListReadFrom \/ ListReset

ListSpec == ListInit /\ [][ListNext]_vars

\* ------------------------------------------------------------------ one TCP/Unix connection on its loop
\* Bytes the client may send in all.
MaxSend == 2
\* Tasks that may wait in the loop's queue.
MaxTasks == 1

\* What testServer.OnOpen returns: the greeting "sweetness\r\n", here two
\* bytes that differ from every byte the client sends.
Greeting == <<-2, -1>>

\* The connection and its socket, as one value the loop's handlers map.
Pipe == [conn |-> conn, wire |-> wire, cb |-> cb]

\* One non-blocking send of `data`, of which the kernel takes k bytes.
sock_send(x, data, k) == [x EXCEPT !.wire.s2c = @ \o Take(data, k)]

\* Conn.Write(data) on the loop: appended to outbound when outbound holds
\* bytes; otherwise one send is tried (the kernel takes k bytes), the rest is
\* appended to outbound and write-interest is armed.
conn_write(x, data, k, c) ==
    LET sent == Min(k, Len(data))
        x1 == sock_send(x, data, sent)
    IN IF data = <<>> THEN x
       ELSE IF ~mb_IsEmpty(x.conn.outbound)
            THEN [x EXCEPT !.conn.outbound = mb_Write(@, data, c).s]
       ELSE IF sent < Len(data)
            THEN [x1 EXCEPT !.conn.outbound = mb_Write(@, Drop(data, sent), c).s, !.conn.armed = TRUE]
       ELSE x1

\* testServer.OnOpen: counts the connection and returns the greeting.
h_OnOpen(x) == [x |-> [x EXCEPT !.cb.connected = @ + 1], out |-> Greeting]

\* testServer.OnClose: counts the disconnection.
h_OnClose(x) == [x EXCEPT !.cb.disconnected = @ + 1]

\* testServer.OnTraffic, synchronous echo: buf, _ := c.Next(-1); c.Write(buf).
h_OnTraffic(x, k, c) ==
    LET rd == mb_Read(x.conn.inbound, mb_Buffered(x.conn.inbound))
        x1 == [x EXCEPT !.conn.inbound = rd.s,
                        !.cb.traffic = TRUE,
                        !.cb.early = @ \/ x.cb.connected = 0,
                        !.cb.late = @ \/ x.cb.disconnected > 0]
    IN conn_write(x1, rd.data, k, c)

\* Accept: the buffers are made, read-interest registered, OnOpen runs and
\* what it returns is written out.
loop_open(x, W, k, c) ==
    LET x1 == [x EXCEPT !.conn = [state |-> "OPEN", inbound |-> mb_New(W, c), outbound |-> mb_New(W, c), armed |-> FALSE]]
        o == h_OnOpen(x1)
    IN conn_write(o.x, o.out, k, c)

\* Read-readiness: one recv of m bytes into inbound, then OnTraffic.
loop_read(x, m, k, c) ==
    LET x1 == [x EXCEPT !.conn.inbound = mb_Write(@, Take(x.wire.c2s, m), c).s,
                        !.wire.c2s = Drop(@, m)]
    IN h_OnTraffic(x1, k, c)

\* Write-readiness: one vectored send of outbound, of which the kernel takes
\* k bytes; write-interest is disarmed when outbound is drained.
loop_write(x, k) ==
    LET iov == mb_Peek(x.conn.outbound, -1)
        n == Min(k, SumLen(iov))
        x1 == sock_send(x, Flatten(iov), n)
        ob == mb_Discard(x1.conn.outbound, n).s
    IN [x1 EXCEPT !.conn.outbound = ob, !.conn.armed = ~mb_IsEmpty(ob), !.cb.flushed = TRUE]

\* Mutant of loop_close: outbound is not flushed before the close.
loop_close_noFlush(x, k) ==
    LET x2 == [x EXCEPT !.conn = [state |-> "CLOSED", inbound |-> mb_Release(x.conn.inbound),
                                  outbound |-> mb_Release(x.conn.outbound), armed |-> FALSE]]
    IN IF x.conn.state # "OPEN" THEN x ELSE h_OnClose(x2)

\* Mutant of loop_close: the connection is closed again when it is closed already.
loop_close_again(x, k) == h_OnClose([x EXCEPT !.conn.state = "CLOSED"])

\* Closing: nothing when the connection is not open; otherwise one
\* best-effort send of outbound, the buffers are released, the connection
\* leaves the loop's table and OnClose runs.
loop_close(x, k) ==
    LET iov == mb_Peek(x.conn.outbound, -1)
        x1 == sock_send(x, Flatten(iov), Min(k, SumLen(iov)))
        x2 == [x1 EXCEPT !.conn = [state |-> "CLOSED", inbound |-> mb_Release(x.conn.inbound),
                                   outbound |-> mb_Release(x.conn.outbound), armed |-> FALSE]]
    IN IF x.conn.state # "OPEN" THEN x ELSE h_OnClose(x2)

\* The connection, its socket and the callbacks' record become x.
Settle(x) ==
    /\ conn' = x.conn
    /\ wire' = x.wire
    /\ cb' = x.cb

\* How many bytes the kernel may take of a send of n bytes.
Accepts(n) == 0..n

Accept ==
    /\ conn.state = "INIT"
    /\ loop.engine = "running"
    /\ \E W \in 1..MaxW, c \in RingCaps, k \in Accepts(Len(Greeting)) : Settle(loop_open(Pipe, W, k, c))
    /\ UNCHANGED <<loop, bufVars>>

ClientSend ==
    /\ wire.peer = "open"
    /\ \E n \in 1..(MaxSend - wire.sent) :
          wire' = [wire EXCEPT !.c2s = @ \o Fresh(wire.sent, n), !.sent = @ + n]
    /\ UNCHANGED <<conn, loop, cb, bufVars>>

ClientRecv ==
    /\ \E n \in 1..Len(wire.s2c) :
          wire' = [wire EXCEPT !.s2c = Drop(@, n), !.recv = @ \o Take(wire.s2c, n)]
    /\ UNCHANGED <<conn, loop, cb, bufVars>>

ClientClose ==
    /\ wire.peer = "open"
    /\ wire' = [wire EXCEPT !.peer = "closed"]
    /\ UNCHANGED <<conn, loop, cb, bufVars>>

LoopRead ==
    /\ conn.state = "OPEN"
    /\ loop.engine = "running"
    /\ \E m \in 1..Len(wire.c2s), c \in Caps(conn.inbound) \cup Caps(conn.outbound) :
          \E k \in Accepts(m) : Settle(loop_read(Pipe, m, k, c))
    /\ UNCHANGED <<loop, bufVars>>

LoopEOF ==
    /\ conn.state = "OPEN"
    /\ loop.engine = "running"
    /\ wire.peer = "closed"
    /\ wire.c2s = <<>>
    /\ \E k \in Accepts(mb_Buffered(conn.outbound)) : Settle(loop_close(Pipe, k))
    /\ UNCHANGED <<loop, bufVars>>

LoopError ==
    /\ conn.state = "OPEN"
    /\ loop.engine = "running"
    /\ Settle(loop_close(Pipe, 0))
    /\ UNCHANGED <<loop, bufVars>>

LoopWrite ==
    /\ conn.state = "OPEN"
    /\ loop.engine = "running"
    /\ conn.armed
    /\ \E k \in 1..mb_Buffered(conn.outbound) : Settle(loop_write(Pipe, k))
    /\ UNCHANGED <<loop, bufVars>>

\* Conn.Close() from any thread: a task for the owning loop.
UserClose ==
    /\ conn.state # "INIT"
    /\ loop.engine = "running"
    /\ Len(loop.tasks) < MaxTasks
    /\ loop' = [loop EXCEPT !.tasks = Append(@, "close")]
    /\ UNCHANGED <<conn, wire, cb, bufVars>>

\* Conn.Wake() from any thread: a task for the owning loop.
UserWake ==
    /\ conn.state # "INIT"
    /\ loop.engine = "running"
    /\ Len(loop.tasks) < MaxTasks
    /\ loop' = [loop EXCEPT !.tasks = Append(@, "wake")]
    /\ UNCHANGED <<conn, wire, cb, bufVars>>

\* The loop runs the task at the head of its queue.
RunTask ==
    /\ loop.engine = "running"
    /\ loop.tasks # <<>>
    /\ loop' = [loop EXCEPT !.tasks = Tail(@)]
    /\ \/ /\ Head(loop.tasks) = "close"
          /\ \E k \in Accepts(mb_Buffered(conn.outbound)) : Settle(loop_close(Pipe, k))
       \/ /\ Head(loop.tasks) = "wake"
          /\ IF conn.state = "OPEN" THEN Settle(h_OnTraffic(Pipe, 0, 0)) ELSE UNCHANGED <<conn, wire, cb>>
    /\ UNCHANGED bufVars

\* Engine shutdown: the remaining connection is closed and the loop ends.
Shutdown ==
    /\ loop.engine = "running"
    /\ loop' = [loop EXCEPT !.engine = "stopped", !.tasks = <<>>]
    /\ \E k \in Accepts(mb_Buffered(conn.outbound)) : Settle(loop_close(Pipe, k))
    /\ UNCHANGED bufVars

ConnInit == NoConn /\ Fresh0(Void)

ConnNext ==
    \/ Accept \/ ClientSend \/ ClientRecv \/ ClientClose
    \/ LoopRead \/ LoopEOF \/ LoopError \/ LoopWrite
    \/ UserClose \/ UserWake \/ RunTask \/ Shutdown

ConnSpec == ConnInit /\ [][ConnNext]_vars

\* ------------------------------------------------------------------ the engine: two loops, one connection each
\* Bytes the clients may send in all.
EngSend == 1
\* Wake() calls made in all.
MaxWakes == 1

\* Action values a callback can return.
None == 0
Close == 1
ShutdownAction == 2
\* The values callbacks return here: the three above and two that are none
\* of them, one negative (testWakeConnServer.OnTraffic returns -1).
Actions == {-1, None, Close, ShutdownAction, 3}

Conns == {1, 2}
Loops == {1, 2}
\* The loop that owns connection i, fixed at accept.
LoopOf(i) == i

\* How many bytes the kernel may take of what one event sends: none, one, all.
Rooms == {0, 1, Len(Greeting) + EngSend}

\* What is noted per connection: the callbacks' record and, of its close,
\* the error OnClose got, why it was closed, how many bytes of outbound the
\* flush got out and how many it did not; `wrote` is what the handlers
\* have passed to Write, `nTraffic` the number of OnTraffic calls.
NoCalls ==
    [connected |-> 0, disconnected |-> 0, traffic |-> FALSE, early |-> FALSE, late |-> FALSE, flushed |-> FALSE,
     nTraffic |-> 0, wrote |-> <<>>, err |-> "none", why |-> "none", took |-> 0, lost |-> 0]

\* Connection i, its socket and its callbacks' record.
PipeOf(i) == [conn |-> conn[i], wire |-> wire[i], cb |-> cb.c[i]]

\* Closing with the error OnClose gets and the cause.
eng_close(x, k, err, why) ==
    IF x.conn.state # "OPEN" THEN x
    ELSE [loop_close(x, k) EXCEPT !.cb.err = err, !.cb.why = why,
                                  !.cb.took = Min(k, mb_Buffered(x.conn.outbound)),
                                  !.cb.lost = mb_Buffered(x.conn.outbound) - Min(k, mb_Buffered(x.conn.outbound))]

\* Mutant of eng_apply: every value but None closes the connection.
eng_apply_nonZero(x, a, k) == IF a # None THEN eng_close(x, k, "nil", "action") ELSE x

\* The Action a callback returned is applied to its connection: Close closes
\* it after a flush; every other value leaves it as it is (Shutdown is for the
\* engine, see Signals).
eng_apply(x, a, k) == IF a = Close THEN eng_close(x, k, "nil", "action") ELSE x

\* Whether a returned Action asks for engine-wide shutdown.
Signals(a) == a = ShutdownAction

\* What OnOpen can return, bytes and Action: no bytes with any Action
\* (testShutdownServer, testCloseActionOnOpenServer), or bytes with Close.
OpenReturns == ({<<>>} \X Actions) \cup {<<Greeting, Close>>}

\* testShutdownServer.OnOpen: counts the client.
hs_OnOpen(x) == [x EXCEPT !.cb.connected = @ + 1]

\* Accept on the owning loop: the buffers are made, OnOpen runs, the bytes
\* it returned are written, its Action is applied.
eng_open(x, ret, k, k2) ==
    LET x1 == [x EXCEPT !.conn = [state |-> "OPEN", inbound |-> mb_New(1, 0), outbound |-> mb_New(1, 0), armed |-> FALSE]]
        x2 == conn_write(hs_OnOpen(x1), ret[1], k, 0)
    IN eng_apply([x2 EXCEPT !.cb.wrote = @ \o ret[1]], ret[2], k2)

\* Read-readiness: recv of m bytes, OnTraffic, its Action applied.
eng_read(x, m, k, a, k2) ==
    eng_apply([loop_read(x, m, k, 0) EXCEPT !.cb.wrote = @ \o Content(x.conn.inbound) \o Take(x.wire.c2s, m), !.cb.nTraffic = @ + 1], a, k2)

\* A Wake task on an open connection: OnTraffic with no recv before it.
eng_wake(x, k, a, k2) ==
    eng_apply([h_OnTraffic(x, k, 0) EXCEPT !.cb.wrote = @ \o Content(x.conn.inbound), !.cb.nTraffic = @ + 1], a, k2)

\* Whether a is none of the three Action values.
Odd(a) == a \notin {None, Close, ShutdownAction}

\* Connection i becomes x after an event whose OnOpen/OnTraffic returned a
\* and whose OnClose returned b (None where there was no such callback):
\* shutdown is signalled if either asks for it, and it is noted if a was
\* none of the three values.
SettleAt(i, x, a, b) ==
    /\ conn' = [conn EXCEPT ![i] = x.conn]
    /\ wire' = [wire EXCEPT ![i] = x.wire]
    /\ cb' = [cb EXCEPT !.c[i] = x.cb]
    /\ loop' = [loop EXCEPT !.signal = @ \/ Signals(a) \/ Signals(b), !.odd = @ \/ Odd(a)]

\* The values OnClose returns here: None (testShutdownServer), Shutdown
\* (testWakeConnServer) and one that is neither.
CloseReturns == {-1, None, ShutdownAction}

\* The Actions OnClose can return in the step from x to y: it runs only if
\* the step closed the connection.
CloseActions(x, y) == IF y.cb.disconnected > x.cb.disconnected THEN CloseReturns ELSE {None}

\* The room the kernel can have for the flush of a close that Action a asks for.
FlushRooms(a) == IF a = Close THEN Rooms ELSE {0}

\* Loop l is running its events.
Runs(l) == loop.status[l] = "running"

EngInit ==
    /\ conn = [i \in Conns |-> [state |-> "INIT", inbound |-> Void, outbound |-> Void, armed |-> FALSE]]
    /\ wire = [i \in Conns |-> [c2s |-> <<>>, s2c |-> <<>>, sent |-> 0, recv |-> <<>>, peer |-> "open"]]
    /\ loop = [signal |-> FALSE, status |-> [l \in Loops |-> "running"], tasks |-> [l \in Loops |-> <<>>],
               run |-> "blocked", wakes |-> 0, odd |-> FALSE]
    /\ cb = [c |-> [i \in Conns |-> NoCalls], onShutdown |-> 0]
    /\ Fresh0(Void)

EngAccept ==
    \E i \in Conns, k \in Rooms, ret \in OpenReturns :
        /\ conn[i].state = "INIT"
        /\ ~loop.signal
        /\ Runs(LoopOf(i))
        /\ \E k2 \in FlushRooms(ret[2]) :
           LET x == eng_open(PipeOf(i), ret, k, k2)
           IN \E b \in CloseActions(PipeOf(i), x) : SettleAt(i, x, ret[2], b)
        /\ UNCHANGED bufVars

RECURSIVE SumSent(_)
\* The bytes the clients in S have sent.
SumSent(S) == IF S = {} THEN 0 ELSE LET i == CHOOSE j \in S : TRUE IN wire[i].sent + SumSent(S \ {i})

SentInAll == SumSent(Conns)

EngClientSend ==
    \E i \in Conns :
        /\ wire[i].peer = "open"
        /\ conn[i].state = "OPEN"
        /\ SentInAll < EngSend
        /\ wire' = [wire EXCEPT ![i].c2s = @ \o Fresh(wire[i].sent, 1), ![i].sent = @ + 1]
        /\ UNCHANGED <<conn, loop, cb, bufVars>>

EngClientClose ==
    \E i \in Conns :
        /\ wire[i].peer = "open"
        /\ conn[i].state = "OPEN"
        /\ wire' = [wire EXCEPT ![i].peer = "closed"]
        /\ UNCHANGED <<conn, loop, cb, bufVars>>

EngRead ==
    \E i \in Conns, k \in Rooms, a \in Actions :
        /\ conn[i].state = "OPEN"
        /\ Runs(LoopOf(i))
        /\ \E m \in 1..Len(wire[i].c2s), k2 \in FlushRooms(a) :
              LET x == eng_read(PipeOf(i), m, k, a, k2)
              IN \E b \in CloseActions(PipeOf(i), x) : SettleAt(i, x, a, b)
        /\ UNCHANGED bufVars

EngEOF ==
    \E i \in Conns, k \in Rooms :
        /\ conn[i].state = "OPEN"
        /\ Runs(LoopOf(i))
        /\ wire[i].peer = "closed"
        /\ wire[i].c2s = <<>>
        /\ \E b \in CloseReturns : SettleAt(i, eng_close(PipeOf(i), k, "EOF", "peer"), None, b)
        /\ UNCHANGED bufVars

EngError ==
    \E i \in Conns :
        /\ conn[i].state = "OPEN"
        /\ Runs(LoopOf(i))
        /\ \E b \in CloseReturns : SettleAt(i, eng_close(PipeOf(i), 0, "error", "io"), None, b)
        /\ UNCHANGED bufVars

EngWrite ==
    \E i \in Conns :
        /\ conn[i].state = "OPEN"
        /\ Runs(LoopOf(i))
        /\ conn[i].armed
        /\ \E k \in 1..mb_Buffered(conn[i].outbound) : SettleAt(i, loop_write(PipeOf(i), k), None, None)
        /\ UNCHANGED bufVars

\* Conn.Close() from a thread that is not the loop's.
EngUserClose ==
    \E i \in Conns :
        /\ conn[i].state # "INIT"
        /\ Runs(LoopOf(i))
        /\ Len(loop.tasks[LoopOf(i)]) < MaxTasks
        /\ loop' = [loop EXCEPT !.tasks[LoopOf(i)] = Append(@, [op |-> "close", c |-> i])]
        /\ UNCHANGED <<conn, wire, cb, bufVars>>

\* Conn.Wake() from a thread that is not the loop's.
EngUserWake ==
    \E i \in Conns :
        /\ conn[i].state # "INIT"
        /\ Runs(LoopOf(i))
        /\ Len(loop.tasks[LoopOf(i)]) < MaxTasks
        /\ loop.wakes < MaxWakes
        /\ loop' = [loop EXCEPT !.tasks[LoopOf(i)] = Append(@, [op |-> "wake", c |-> i]), !.wakes = @ + 1]
        /\ UNCHANGED <<conn, wire, cb, bufVars>>

\* Mutant of eng_task: a Wake task calls OnTraffic whatever the connection's state.
eng_task_anyState(x, tk, k, a, k2) ==
    IF tk.op = "close" THEN eng_close(x, k, "nil", "user") ELSE eng_wake(x, k, a, k2)

\* What running task tk does to its connection: a Close task closes it if
\* it is open; a Wake task calls OnTraffic (returning a) if it is open; on a
\* connection that is closed already neither does anything.
eng_task(x, tk, k, a, k2) ==
    IF tk.op = "close" THEN eng_close(x, k, "nil", "user")
    ELSE IF x.conn.state = "OPEN" THEN eng_wake(x, k, a, k2)
    ELSE x

\* The Actions the callback of task tk can return: only a Wake calls one.
TaskActions(tk) == IF tk.op = "wake" THEN Actions ELSE {None}

\* Loop l runs the task at the head of its queue.
EngRunTask ==
    \E l \in Loops, k \in Rooms :
        /\ Runs(l)
        /\ loop.tasks[l] # <<>>
        /\ \E a \in TaskActions(Head(loop.tasks[l])) : \E k2 \in FlushRooms(a) :
           LET tk == Head(loop.tasks[l])
               x == eng_task(PipeOf(tk.c), tk, k, a, k2)
               ran == x.cb.nTraffic > cb.c[tk.c].nTraffic
           IN \E b \in CloseActions(PipeOf(tk.c), x) :
                 /\ conn' = [conn EXCEPT ![tk.c] = x.conn]
                 /\ wire' = [wire EXCEPT ![tk.c] = x.wire]
                 /\ cb' = [cb EXCEPT !.c[tk.c] = x.cb]
                 /\ loop' = [loop EXCEPT !.tasks[l] = Tail(@),
                                         !.signal = @ \/ (ran /\ Signals(a)) \/ Signals(b),
                                         !.odd = @ \/ (ran /\ Odd(a))]
        /\ UNCHANGED bufVars

\* Stop(ctx, addr) from any thread: shutdown is signalled.
EngStop ==
    /\ ~loop.signal
    /\ loop' = [loop EXCEPT !.signal = TRUE]
    /\ UNCHANGED <<conn, wire, cb, bufVars>>

\* Mutant of eng_exit: the loop ends without closing its connection.
eng_exit_leave(x, k) == x

\* What a loop that ends does to a connection it owns: closed, OnClose
\* getting the shutdown cause.
eng_exit(x, k) == eng_close(x, k, "shutdown", "shutdown")

\* Loop l sees the signal: it closes the connections it still has and ends;
\* the tasks still in its queue are dropped.
EngLoopExit ==
    \E l \in Loops, k \in Rooms :
        /\ loop.signal
        /\ Runs(l)
        /\ conn' = [i \in Conns |-> IF LoopOf(i) = l THEN eng_exit(PipeOf(i), k).conn ELSE conn[i]]
        /\ wire' = [i \in Conns |-> IF LoopOf(i) = l THEN eng_exit(PipeOf(i), k).wire ELSE wire[i]]
        /\ cb' = [cb EXCEPT !.c = [i \in Conns |-> IF LoopOf(i) = l THEN eng_exit(PipeOf(i), k).cb ELSE cb.c[i]]]
        /\ loop' = [loop EXCEPT !.status[l] = "exited", !.tasks[l] = <<>>]
        /\ UNCHANGED bufVars

\* Every loop has ended.
AllExited == \A l \in Loops : loop.status[l] = "exited"

\* OnShutdown, once the loops have ended.
EngOnShutdown ==
    /\ AllExited
    /\ cb.onShutdown = 0
    /\ cb' = [cb EXCEPT !.onShutdown = @ + 1]
    /\ UNCHANGED <<conn, wire, loop, bufVars>>

\* Run returns to its caller.
EngRunReturns ==
    /\ cb.onShutdown > 0
    /\ loop.run = "blocked"
    /\ loop' = [loop EXCEPT !.run = "returned"]
    /\ UNCHANGED <<conn, wire, cb, bufVars>>

EngNext ==
    \/ EngAccept \/ EngClientSend \/ EngClientClose
    \/ EngRead \/ EngEOF \/ EngError \/ EngWrite
    \/ EngUserClose \/ EngUserWake \/ EngRunTask
    \/ EngStop \/ EngLoopExit \/ EngOnShutdown \/ EngRunReturns

EngSpec == EngInit /\ [][EngNext]_vars

\* ------------------------------------------------------------------ the engine's loops behind the load balancer
\* Event loops of the engine.
NumLoops == 3
\* Connections accepted in all.
MaxAccepts == 6
\* Stop calls made in all.
MaxStops == 3

Subs == 1..NumLoops

\* Ties go to the highest index.
lb_next_highest(counts) ==
    CHOOSE l \in Subs :
        /\ \A j \in Subs : counts[l] <= counts[j]
        /\ \A j \in Subs : j > l => counts[j] > counts[l]

\* LeastConnections: the loop with the minimum current connection count, the
\* lowest index among equals.
lb_next(counts) ==
    CHOOSE l \in Subs :
        /\ \A j \in Subs : counts[l] <= counts[j]
        /\ \A j \in Subs : j < l => counts[j] > counts[l]

RECURSIVE srv_open(_, _)
\* Connections open on loops 1..l.
srv_open(counts, l) ==
    IF l = 0 THEN 0 ELSE counts[l] + srv_open(counts, l - 1)

\* Stop that signals shutdown whatever the engine's state.
srv_Stop_again(x) ==
    [x |-> [x EXCEPT !.loop.engine = "stopping"], err |-> "pending"]

\* Stop(ctx, addr): the first call signals shutdown and waits for it; a call
\* that finds the engine stopped does nothing and says so.
srv_Stop(x) ==
    IF x.loop.engine = "stopped"
    THEN [x |-> x, err |-> "already stopped"]
    ELSE [x |-> [x EXCEPT !.loop.engine = "stopping"], err |-> "pending"]

\* Shutdown: the remaining connections are closed, each with its OnClose, the
\* loops terminate, OnShutdown runs once.
srv_shutdown(x) ==
    [loop |-> [x.loop EXCEPT !.engine = "stopped",
                             !.conns = [l \in Subs |-> 0],
                             !.closes = @ + srv_open(x.loop.conns, NumLoops)],
     cb |-> [x.cb EXCEPT !.onClose = @ + srv_open(x.loop.conns, NumLoops),
                         !.onShutdown = @ + 1]]

SrvInit ==
    /\ conn = [state |-> "INIT", inbound |-> Void, outbound |-> Void, armed |-> FALSE]
    /\ wire = [c2s |-> <<>>, s2c |-> <<>>, sent |-> 0, recv |-> <<>>, peer |-> "open"]
    /\ loop = [engine |-> "running", conns |-> [l \in Subs |-> 0], accepts |-> 0, closes |-> 0]
    /\ cb = [onClose |-> 0, onShutdown |-> 0]
    /\ maxStaticBytes = Void.maxStaticBytes
    /\ ringBuffer = Void.ringBuffer
    /\ listBuffer = Void.listBuffer
    /\ rbPool = 0
    /\ bbPool = 0
    /\ written = 0
    /\ out = <<>>
    /\ last = [op |-> "Run", err |-> "nil", calls |-> 0]

\* The main loop accepts a connection and hands it to a loop.
SrvAccept ==
    /\ loop.engine = "running"
    /\ loop.accepts < MaxAccepts
    /\ loop' = [loop EXCEPT !.conns[lb_next(loop.conns)] = @ + 1, !.accepts = @ + 1]
    /\ UNCHANGED <<conn, wire, cb, bufVars>>

\* A connection of loop l closes.
SrvClose ==
    \E l \in Subs :
        /\ loop.engine = "running"
        /\ loop.conns[l] > 0
        /\ loop' = [loop EXCEPT !.conns[l] = @ - 1, !.closes = @ + 1]
        /\ cb' = [cb EXCEPT !.onClose = @ + 1]
        /\ UNCHANGED <<conn, wire, bufVars>>

\* Stop(ctx, addr) is called; a first call returns when the shutdown is done.
SrvStop ==
    /\ loop.engine # "stopping"
    /\ last.calls < MaxStops
    /\ LET r == srv_Stop([loop |-> loop, cb |-> cb]) IN
        /\ loop' = r.x.loop
        /\ cb' = r.x.cb
        /\ last' = [op |-> "Stop", err |-> r.err, calls |-> last.calls + 1]
    /\ UNCHANGED <<conn, wire, maxStaticBytes, ringBuffer, listBuffer, rbPool, bbPool, written, out>>

\* The shutdown completes and the waiting Stop returns nil.
SrvShutdown ==
    /\ loop.engine = "stopping"
    /\ LET r == srv_shutdown([loop |-> loop, cb |-> cb]) IN
        /\ loop' = r.loop
        /\ cb' = r.cb
    /\ last' = [last EXCEPT !.err = "nil"]
    /\ UNCHANGED <<conn, wire, maxStaticBytes, ringBuffer, listBuffer, rbPool, bbPool, written, out>>

SrvNext == SrvAccept \/ SrvClose \/ SrvStop \/ SrvShutdown

SrvSpec == SrvInit /\ [][SrvNext]_vars

\* ------------------------------------------------------------------ the nodes of the linked list
\* Nodes (*ByteBuffer) that exist in all.
MaxNodes == 4

Nodes == 1..MaxNodes

\* The nil *ByteBuffer.
Nil == 0

\* b.Buf.Len(): the nodes' buffers hold 0, 1, ... bytes.
node_Len(b) == b - 1

\* A zero-value linkedlist.Buffer; next[b] is b.next, nil for a fresh node.
node_Empty == [head |-> Nil, tail |-> Nil, size |-> 0, bytes |-> 0, next |-> [b \in Nodes |-> Nil]]

RECURSIVE node_chain(_, _, _)
\* The nodes met from b along next, at most `fuel` of them.
node_chain(l, b, fuel) ==
    IF b = Nil \/ fuel = 0 THEN <<>> ELSE <<b>> \o node_chain(l, l.next[b], fuel - 1)

\* Mutant of node_Pop: tail is left as it was when the last node goes.
node_Pop_keepTail(l) ==
    IF l.head = Nil THEN [l |-> l, b |-> Nil]
    ELSE [l |-> [l EXCEPT !.head = l.next[l.head],
                          !.next[l.head] = Nil,
                          !.size = @ - 1,
                          !.bytes = @ - node_Len(l.head)],
          b |-> l.head]

\* Pop(): the head node, nil when the list is empty.
node_Pop(l) ==
    IF l.head = Nil THEN [l |-> l, b |-> Nil]
    ELSE [l |-> [l EXCEPT !.head = l.next[l.head],
                          !.tail = IF l.next[l.head] = Nil THEN Nil ELSE @,
                          !.next[l.head] = Nil,
                          !.size = @ - 1,
                          !.bytes = @ - node_Len(l.head)],
          b |-> l.head]

\* PushFront(b)
node_PushFront(l, b) ==
    IF b = Nil THEN l
    ELSE [l EXCEPT !.next[b] = IF l.head = Nil THEN Nil ELSE l.head,
                   !.tail = IF l.head = Nil THEN b ELSE @,
                   !.head = b,
                   !.size = @ + 1,
                   !.bytes = @ + node_Len(b)]

\* PushBack(b)
node_PushBack(l, b) ==
    IF b = Nil THEN l
    ELSE LET l1 == IF l.tail = Nil THEN [l EXCEPT !.head = b] ELSE [l EXCEPT !.next[l.tail] = b]
         IN [l1 EXCEPT !.next[b] = Nil,
                       !.tail = b,
                       !.size = @ + 1,
                       !.bytes = @ + node_Len(b)]

\* The nodes a caller can push: nil, or a node that is not in the list.
Pushable(l) == {Nil} \cup {b \in Nodes : \A i \in 1..Len(node_chain(l, l.head, MaxNodes)) : node_chain(l, l.head, MaxNodes)[i] # b}

NodeInit ==
    /\ conn = [state |-> "INIT", inbound |-> Void, outbound |-> Void, armed |-> FALSE]
    /\ wire = [c2s |-> <<>>, s2c |-> <<>>, sent |-> 0, recv |-> <<>>, peer |-> "open"]
    /\ loop = [tasks |-> <<>>, engine |-> "running"]
    /\ cb = [connected |-> 0, disconnected |-> 0, traffic |-> FALSE, early |-> FALSE, late |-> FALSE, flushed |-> FALSE]
    /\ maxStaticBytes = Void.maxStaticBytes
    /\ ringBuffer = NilRing
    /\ listBuffer = node_Empty
    /\ rbPool = 0
    /\ bbPool = 0
    /\ written = 0
    /\ out = <<>>
    /\ last = [op |-> "New", b |-> Nil]

NodePop ==
    LET r == node_Pop(listBuffer) IN
        /\ listBuffer' = r.l
        /\ last' = [op |-> "Pop", b |-> r.b]
        /\ UNCHANGED <<connVars, maxStaticBytes, ringBuffer, rbPool, bbPool, written, out>>

NodePushFront ==
    \E b \in Pushable(listBuffer) :
        /\ listBuffer' = node_PushFront(listBuffer, b)
        /\ last' = [op |-> "PushFront", b |-> b]
        /\ UNCHANGED <<connVars, maxStaticBytes, ringBuffer, rbPool, bbPool, written, out>>

NodePushBack ==
    \E b \in Pushable(listBuffer) :
        /\ listBuffer' = node_PushBack(listBuffer, b)
        /\ last' = [op |-> "PushBack", b |-> b]
        /\ UNCHANGED <<connVars, maxStaticBytes, ringBuffer, rbPool, bbPool, written, out>>

NodeNext == NodePop \/ NodePushFront \/ NodePushBack

NodeSpec == NodeInit /\ [][NodeNext]_vars

\* ------------------------------------------------------------------ claims
\* p is a prefix of q.
IsPrefix(p, q) == Len(p) <= Len(q) /\ p = SubSeq(q, 1, Len(p))

\* C1: the elastic buffer is a FIFO of bytes: what Read and WriteTo handed
\* out and Discard skipped, in call order, followed by what is still
\* buffered (ring first, then list), is exactly the stream written so far.
C1_Fifo == out \o Content(State) = Fresh(0, written)

C5_PeekDiscardIsRead ==
    \A n \in 1..mb_Buffered(State) :
        LET rd == mb_Read(State, n)
            dc == mb_Discard(State, n)
        IN /\ Take(Flatten(mb_Peek(State, n)), n) = rd.data
           /\ Len(rd.data) = n
           /\ dc.discarded = n
           /\ Content(dc.s) = Content(rd.s)

\* A Peek(n) was made with n reaching past the ring's bytes into the list.
C5_Witness ==
    /\ last.op = "Peek"
    /\ last.held /\ 0 < last.rb /\ last.rb < last.n /\ last.n <= last.rb + last.lb
    /\ last.ret >= last.n

\* C6: the slices of Peek(n) concatenate to a prefix of the buffered content
\* (ring bytes first, then the list's chunks in order); for n > 0 it holds
\* at least min(n, Buffered()) bytes and reaches into the list only when the
\* ring holds fewer than n bytes; for n <= 0 it is all the content.
C6_PeekPrefix ==
    \A n \in -1..(MaxBytes + 1) :
        LET flat == Flatten(mb_Peek(State, n))
        IN /\ IsPrefix(flat, Content(State))
           /\ n > 0 => Len(flat) >= Min(n, mb_Buffered(State))
           /\ n > 0 /\ Len(flat) > rb_Buffered(ringBuffer) => rb_Buffered(ringBuffer) < n
           /\ n <= 0 => flat = Content(State)

\* A Peek(n <= 0) returned every byte of a buffer holding bytes in the ring
\* and in the list.
C6_Witness ==
    /\ last.op = "Peek"
    /\ last.n <= 0
    /\ last.rb > 0 /\ last.lb > 0
    /\ last.ret = last.rb + last.lb

\* C7: from every state and for every 0 <= n <= Buffered(), Discard(n)
\* returns n, Buffered() decreases by exactly n, and what remains is the
\* previous content without its first n bytes.
C7_DiscardExact ==
    \A n \in 0..mb_Buffered(State) :
        LET dc == mb_Discard(State, n)
        IN /\ dc.discarded = n
           /\ mb_Buffered(dc.s) = mb_Buffered(State) - n
           /\ Content(dc.s) = Drop(Content(State), n)

\* A Discard(n) took all of the ring's bytes and part of the list's.
C7_Witness ==
    /\ last.op = "Discard"
    /\ last.held /\ 0 < last.rb /\ last.rb < last.n /\ last.n < last.rb + last.lb
    /\ last.ret = last.n
    /\ mb_Buffered(State) = last.rb + last.lb - last.n

\* The bytes of a sequence.
Bytes(p) == {p[i] : i \in 1..Len(p)}

\* C8: Peek is non-consuming: it leaves the ring (held or not, and its
\* bytes), the list's chunks and Buffered() as they were; a byte leaves the
\* buffer only in a Read, Discard, WriteTo, Reset or Release.
C8_PeekKeeps ==
    [][/\ last'.op = "Peek" =>
            /\ ringBuffer' = ringBuffer
            /\ listBuffer' = listBuffer
            /\ mb_Buffered(State') = mb_Buffered(State)
       /\ ~(Bytes(Content(State)) \subseteq Bytes(Content(State'))) =>
            last'.op \in {"Read", "Discard", "WriteTo", "Reset", "Release"}]_vars

\* A Peek(n > 0) returned bytes of a list-only buffer, and they are all
\* still buffered.
C8_Witness ==
    /\ last.op = "Peek"
    /\ last.n > 0 /\ last.ret > 0
    /\ ~last.held /\ last.lb > 0
    /\ listBuffer.bytes = last.lb

\* C9: the chunks taken from the byte-chunk pool and not put back are
\* exactly the chunks in the list.
C9_ChunkBalance == bbPool = Len(listBuffer.chunks)

\* C10: a Read, Discard or WriteTo that empties a ring holding bytes puts it
\* back in the pool within the call; a ring is acquired only by a Write,
\* Writev or ReadFrom invoked while the list is empty.
C10_RingReleased ==
    [][/\ (last'.op \in {"Read", "Discard", "WriteTo"} /\ ringBuffer.held /\ ringBuffer.buf # <<>> /\ ringBuffer'.buf = <<>>) =>
            (~ringBuffer'.held /\ rbPool' = rbPool - 1)
       /\ (~ringBuffer.held /\ ringBuffer'.held) =>
            (last'.op \in {"Write", "Writev", "ReadFrom"} /\ llb_IsEmpty(listBuffer) /\ rbPool' = rbPool + 1)]_vars

\* A WriteTo emptied a ring that held bytes, and the buffer holds no ring.
C10_Witness ==
    /\ last.op = "WriteTo"
    /\ last.held /\ last.rb > 0
    /\ ~ringBuffer.held
    /\ rbPool = 0

\* C3: whatever the client sends on one connection comes back to it
\* byte for byte and in order, after the greeting: what the client has received
\* and what is on its way to it is a prefix of the greeting followed by what it
\* sent, and while the connection is open nothing is lost or duplicated between
\* the client's send and its receive, however the sends are cut.
C3_Echo ==
    /\ IsPrefix(wire.recv \o wire.s2c, Greeting \o Fresh(0, wire.sent))
    /\ conn.state = "OPEN" =>
          wire.recv \o wire.s2c \o Content(conn.outbound) \o Content(conn.inbound) \o wire.c2s
             = Greeting \o Fresh(0, wire.sent)

\* The client has sent all it may and has received all of it back, part of it
\* through outbound on write-readiness.
C3_Witness ==
    /\ conn.state = "OPEN"
    /\ wire.sent = MaxSend
    /\ cb.flushed
    /\ wire.recv = Greeting \o Fresh(0, MaxSend)

\* C4: OnOpen runs once per connection and before any OnTraffic;
\* OnClose runs once, never twice, and has run whenever the connection has ended.
C4_Lifecycle ==
    /\ cb.connected <= 1
    /\ cb.disconnected <= 1
    /\ ~cb.early
    /\ cb.traffic => cb.connected = 1
    /\ (conn.state = "INIT") <=> (cb.connected = 0)
    /\ (conn.state = "CLOSED") <=> (cb.disconnected = 1)

\* The connection was opened, saw traffic and ended, and a Close() for it
\* is still waiting in the loop's queue.
C4_Witness ==
    /\ conn.state = "CLOSED"
    /\ cb.traffic
    /\ cb.disconnected = 1
    /\ loop.tasks # <<>>
    /\ Head(loop.tasks) = "close"

\* C11: Writev(bs) is Write on each element of bs in order: from every
\* reachable state both leave the same bytes in the ring, the same bytes in the
\* list, and return the same total count.
C11_WritevIsWrites ==
    \A bs \in Vectors(written, MaxBytes - written), c \in Caps(State) :
        LET v == mb_Writev(State, bs, c)
            e == mb_writeEach(State, bs, c)
        IN /\ v.n = e.n
           /\ v.s.ringBuffer.buf = e.s.ringBuffer.buf
           /\ Flatten(v.s.listBuffer.chunks) = Flatten(e.s.listBuffer.chunks)

\* C12: a zero-length write changes nothing: Write(p) with len(p) = 0 and
\* Writev(bs) with bs empty or made of empty slices return 0 and leave the
\* buffer as it was: same bytes, same chunks, same ring ownership (no ring
\* taken from the pool).
C12_ZeroWriteNoOp ==
    \A c \in Caps(State) :
        /\ mb_Write(State, <<>>, c).n = 0
        /\ mb_Write(State, <<>>, c).s = State
        /\ \A bs \in {<<>>, <<<<>>>>, <<<<>>, <<>>>>} :
              /\ mb_Writev(State, bs, c).n = 0
              /\ mb_Writev(State, bs, c).s = State

\* C13: Buffered() is the number of bytes in the ring (0 when no ring
\* is held) plus the number of bytes in the list's chunks.
C13_BufferedIsSum ==
    mb_Buffered(State)
       = (IF ringBuffer.held THEN Len(ringBuffer.buf) ELSE 0) + SumLen(listBuffer.chunks)

\* A ring is held with bytes in it while the list holds bytes too.
C13_Witness ==
    /\ ringBuffer.held
    /\ Len(ringBuffer.buf) > 0
    /\ SumLen(listBuffer.chunks) > 0
    /\ last.op \in {"Write", "Writev"}

\* C14: in the list, the bytes counter is the sum of the chunks' lengths
\* and the size counter is the number of chunks, also after a chunk was popped,
\* sliced and pushed back to the front.
C14_ListCounters ==
    /\ llb_Buffered(listBuffer) = SumLen(listBuffer.chunks)
    /\ llb_Len(listBuffer) = Len(listBuffer.chunks)

\* A Discard or a Read took bytes and left as many chunks as it found: the
\* head chunk was popped, sliced and pushed back.
C14_Witness ==
    /\ last.op \in {"Discard", "Read"}
    /\ 0 < last.ret /\ last.ret < last.lb
    /\ last.size = listBuffer.size
    /\ listBuffer.size > 0

\* C15: with maxBytes > 0, PeekBytesList and PeekBytesListWithBytes
\* return slices of at most maxBytes bytes in all.
C15_PeekAtMost ==
    \A maxBytes \in 1..(MaxBytes + 1) :
        /\ SumLen(llb_PeekBytesList(listBuffer, maxBytes)) <= maxBytes
        /\ \A given \in {<<>>, <<<<0>>>>, <<<<0>>, <<0>>>>} :
              SumLen(llb_PeekBytesListWithBytes(listBuffer, maxBytes, given)) <= maxBytes

\* C16: Release frees all the buffer holds: from every state, after
\* Release no ring is held (a held ring went back to the ring pool, once), the
\* list has no chunk (each chunk it held went back to the chunk pool, once),
\* Buffered() = 0 and IsEmpty() is true; a second Release releases nothing more.
C16_ReleaseFreesAll ==
    LET r == mb_Release(State)
    IN /\ ~r.ringBuffer.held
       /\ r.rbPool = rbPool - (IF ringBuffer.held THEN 1 ELSE 0)
       /\ r.listBuffer.chunks = <<>>
       /\ r.bbPool = bbPool - Len(listBuffer.chunks)
       /\ mb_Buffered(r) = 0
       /\ mb_IsEmpty(r)
       /\ mb_Release(r) = r

\* Release was called on a buffer holding a ring with bytes and a list with
\* bytes, and left neither.
C16_Witness ==
    /\ last.op = "Release"
    /\ last.held /\ last.rb > 0 /\ last.lb > 0
    /\ ~ringBuffer.held
    /\ listBuffer.chunks = <<>>

\* C17: on engine shutdown every connection that had OnOpen and no
\* OnClose yet gets OnClose exactly once; OnShutdown is called once, only
\* after all those OnClose calls and after every loop has ended; only then
\* does Run return.
C17_ShutdownOrder ==
    /\ cb.onShutdown <= 1
    /\ \A i \in Conns : cb.c[i].disconnected <= cb.c[i].connected /\ cb.c[i].connected <= 1
    /\ \A i \in Conns : loop.status[LoopOf(i)] = "exited" =>
          /\ conn[i].state # "OPEN"
          /\ cb.c[i].disconnected = cb.c[i].connected
    /\ cb.onShutdown = 1 =>
          /\ \A l \in Loops : loop.status[l] = "exited"
          /\ \A i \in Conns : cb.c[i].disconnected = cb.c[i].connected
    /\ loop.run = "returned" => cb.onShutdown = 1

\* Run has returned after a shutdown that found both connections open and
\* closed each of them with the shutdown cause.
C17_Witness ==
    /\ loop.run = "returned"
    /\ \A i \in Conns :
          /\ cb.c[i].connected = 1
          /\ cb.c[i].disconnected = 1
          /\ cb.c[i].why = "shutdown"
          /\ cb.c[i].err = "shutdown"

\* C18: when OnOpen or OnTraffic returns Close, outbound (with the
\* bytes written during that callback) is flushed as far as the kernel takes
\* it before the connection is closed; OnClose is then called exactly once,
\* with no error, and no OnTraffic runs on the connection afterwards.
C18_CloseAction ==
    \A i \in Conns : cb.c[i].why = "action" =>
        /\ conn[i].state = "CLOSED"
        /\ cb.c[i].disconnected = 1
        /\ cb.c[i].err = "nil"
        /\ ~cb.c[i].late
        /\ wire[i].recv \o wire[i].s2c = Take(cb.c[i].wrote, Len(cb.c[i].wrote) - cb.c[i].lost)

\* OnTraffic wrote its echo and returned Close; the write could send nothing,
\* and the flush before the close got the echo out.
C18_Witness ==
    \E i \in Conns :
        /\ cb.c[i].why = "action"
        /\ cb.c[i].nTraffic = 1
        /\ cb.c[i].wrote # <<>>
        /\ cb.c[i].took = Len(cb.c[i].wrote)
        /\ wire[i].s2c = cb.c[i].wrote

\* C19: Wake() and Close() from other threads, in any interleaving with
\* each other and with a peer close, only put a task on the owning loop's
\* queue; a Wake task run on an open connection makes one OnTraffic with no
\* new inbound bytes; a Wake task run after the connection was closed calls
\* no callback; OnTraffic never follows OnClose; and a loop ends only when
\* shutdown was signalled, never because of a task.
C19_WakeClose ==
    [][\A l \in Loops :
          /\ Len(loop'.tasks[l]) > Len(loop.tasks[l]) => UNCHANGED <<conn, wire, cb>>
          /\ \A i \in Conns : ~cb'.c[i].late
          /\ loop'.status[l] = "exited" => loop.signal
          /\ (/\ loop.tasks[l] # <<>>
              /\ loop'.tasks[l] = Tail(loop.tasks[l])
              /\ loop'.status[l] = "running"
              /\ Head(loop.tasks[l]).op = "wake")
             => LET i == Head(loop.tasks[l]).c
                IN IF conn[i].state = "OPEN"
                   THEN /\ cb'.c[i].nTraffic = cb.c[i].nTraffic + 1
                        /\ wire'[i].c2s = wire[i].c2s
                   ELSE /\ conn' = conn
                        /\ wire' = wire
                        /\ cb' = cb
    ]_vars

\* The only Wake() made was for a connection that its peer closed; its task
\* has been run, after the close, by a loop that is still running, and no
\* OnTraffic was called.
C19_Witness ==
    \E i \in Conns :
        /\ conn[i].state = "CLOSED"
        /\ cb.c[i].why = "peer"
        /\ cb.c[i].nTraffic = 0
        /\ loop.wakes = 1
        /\ loop.tasks[LoopOf(i)] = <<>>
        /\ loop.status[LoopOf(i)] = "running"
        /\ \A j \in Conns \ {i} : conn[j].state = "INIT"

\* C20: an Action value that is neither Close (1) nor Shutdown (2),
\* negative ones included, does what None does: whatever the callback that
\* returns it, the connection is left open and the engine running, exactly
\* as with None.
C20_OtherActionsAreNone ==
    \A a \in {b \in Actions : b # 1 /\ b # 2}, i \in Conns, k \in Rooms :
        /\ ~Signals(a)
        /\ conn[i].state = "INIT" =>
              /\ eng_open(PipeOf(i), <<<<>>, a>>, k, k) = eng_open(PipeOf(i), <<<<>>, None>>, k, k)
              /\ eng_open(PipeOf(i), <<<<>>, a>>, k, k).conn.state = "OPEN"
        /\ conn[i].state = "OPEN" =>
              /\ eng_wake(PipeOf(i), k, a, k) = eng_wake(PipeOf(i), k, None, k)
              /\ eng_wake(PipeOf(i), k, a, k).conn.state = "OPEN"
              /\ \A m \in 1..Len(wire[i].c2s) :
                    /\ eng_read(PipeOf(i), m, k, a, k) = eng_read(PipeOf(i), m, k, None, k)
                    /\ eng_read(PipeOf(i), m, k, a, k).conn.state = "OPEN"

\* A callback returned a value that is none of the three, its connection
\* has had OnTraffic and is open, and no shutdown was signalled.
C20_Witness ==
    /\ loop.odd
    /\ ~loop.signal
    /\ \A l \in Loops : loop.status[l] = "running"
    /\ \E i \in Conns : conn[i].state = "OPEN" /\ cb.c[i].nTraffic > 0
    /\ \A i \in Conns : conn[i].state # "CLOSED"

\* C21: on an open connection, after each Write and each handling of
\* write-readiness, write-interest is armed exactly when outbound holds bytes
\* (a partial send arms it, a full drain leaves or makes it disarmed), and a
\* Write sends at once only if outbound was empty before it: a step that finds
\* bytes in outbound and does not take any out of it sends nothing.
C21_WriteInterest ==
    [][/\ conn'.state = "OPEN" => (conn'.armed <=> Content(conn'.outbound) # <<>>)
       /\ (/\ conn.state = "OPEN"
           /\ conn'.state = "OPEN"
           /\ Content(conn.outbound) # <<>>
           /\ Len(Content(conn'.outbound)) >= Len(Content(conn.outbound)))
          => wire'.recv \o wire'.s2c = wire.recv \o wire.s2c
    ]_vars

\* Write-readiness was handled and drained part of outbound: bytes are left
\* in it and write-interest is armed.
C21_Witness ==
    /\ conn.state = "OPEN"
    /\ cb.flushed
    /\ conn.armed
    /\ Content(conn.outbound) # <<>>
    /\ wire.s2c # <<>>

\* C22: under LeastConnections every accepted connection goes to a loop whose
\* connection count is minimal, the lowest index among equals; and after K <=
\* NumLoops accepts with no close in between every loop hosts floor(K/N) or
\* ceil(K/N) connections.
C22_LeastConnections ==
    [][loop'.accepts = loop.accepts + 1 =>
        /\ \E l \in Subs :
            /\ loop'.conns = [loop.conns EXCEPT ![l] = @ + 1]
            /\ \A j \in Subs : loop.conns[l] <= loop.conns[j]
            /\ \A j \in Subs : j < l => loop.conns[j] > loop.conns[l]
        /\ (loop'.closes = 0 /\ loop'.accepts <= NumLoops) =>
            \A l \in Subs :
                loop'.conns[l] \in {loop'.accepts \div NumLoops,
                                    (loop'.accepts + NumLoops - 1) \div NumLoops}
    ]_vars

\* K = N accepts, no close: one connection on every loop.
C22_Witness ==
    /\ loop.engine = "running"
    /\ loop.accepts = NumLoops
    /\ loop.closes = 0
    /\ \A l \in Subs : loop.conns[l] = 1

\* C23: once a Stop has succeeded, every further Stop changes nothing of the
\* engine (no second shutdown, no second OnShutdown, no further OnClose) and
\* returns "already stopped".
C23_StopIdempotent ==
    [][loop.engine = "stopped" =>
        /\ loop' = loop
        /\ cb' = cb
        /\ cb.onShutdown = 1
        /\ last' # last => (last'.op = "Stop" /\ last'.err = "already stopped")
    ]_vars

\* A second further Stop has returned, after a shutdown that closed
\* connections.
C23_Witness ==
    /\ loop.engine = "stopped"
    /\ last.op = "Stop"
    /\ last.err = "already stopped"
    /\ last.calls = MaxStops
    /\ cb.onShutdown = 1
    /\ cb.onClose > 0

\* C24: Write(p) places its bytes by the watermark W = maxStaticBytes. If the
\* list is non-empty or the ring holds at least W bytes, p goes to the back
\* of the list and the ring is unchanged; otherwise, if the ring's capacity
\* (c for a ring just taken from the pool) is at least W and p exceeds the
\* free space, the ring takes the first Available() bytes and the list the
\* rest; otherwise p goes to the ring and the list is unchanged.
C24_WritePlacement ==
    [][last'.op = "Write" =>
        LET p == Fresh(written, last'.n)
            W == maxStaticBytes
            buf == ringBuffer.buf
            chunks == Flatten(listBuffer.chunks)
        IN \E c \in (IF ringBuffer.held \/ listBuffer.chunks # <<>> THEN {ringBuffer.size} ELSE RingCaps) :
            LET free == c - Len(buf)
            IN IF listBuffer.chunks # <<>> \/ Len(buf) >= W
               THEN /\ Flatten(listBuffer'.chunks) = chunks \o p
                    /\ ringBuffer' = ringBuffer
               ELSE IF c >= W /\ Len(p) > free
                    THEN /\ ringBuffer'.buf = buf \o Take(p, free)
                         /\ ringBuffer'.size = c
                         /\ Flatten(listBuffer'.chunks) = Drop(p, free)
                    ELSE /\ ringBuffer'.buf = buf \o p
                         /\ ringBuffer'.size >= c
                         /\ listBuffer' = listBuffer
    ]_vars

\* A Write found the list empty and the ring below the watermark, filled the
\* ring and put the rest in the list.
C24_Witness ==
    /\ last.op = "Write"
    /\ last.held
    /\ last.lb = 0
    /\ last.rb > 0
    /\ last.rb < maxStaticBytes
    /\ Len(ringBuffer.buf) > last.rb
    /\ listBuffer.chunks # <<>>

\* C25: the list is used only once the ring has reached the watermark. A
\* Write, Writev or ReadFrom that adds bytes to the list found the list
\* non-empty or leaves the ring (filled before the list in that call) with
\* at least maxStaticBytes bytes; and one that finds the list non-empty adds
\* nothing to the ring.
C25_ListAfterWatermark ==
    [][last'.op \in {"Write", "Writev", "ReadFrom"} =>
        /\ listBuffer'.bytes > listBuffer.bytes =>
            \/ listBuffer.chunks # <<>>
            \/ Len(ringBuffer'.buf) >= maxStaticBytes
        /\ listBuffer.chunks # <<>> => ringBuffer' = ringBuffer
    ]_vars

\* A Writev found the list empty and the ring below the watermark, filled the
\* ring up to it and put the rest in the list.
C25_Witness ==
    /\ last.op = "Writev"
    /\ last.lb = 0
    /\ last.rb < maxStaticBytes
    /\ Len(ringBuffer.buf) > last.rb
    /\ listBuffer.bytes > 0

\* C26: from every state and for every n > Buffered(), Discard(n) returns the
\* previous Buffered() and leaves the buffer empty: Buffered() = 0, no ring
\* held, no chunk in the list, the ring's bytes and then the list's having
\* been discarded.
C26_DiscardAll ==
    \A n \in (mb_Buffered(State) + 1)..(MaxBytes + 1) :
        LET dc == mb_Discard(State, n)
        IN /\ dc.discarded = mb_Buffered(State)
           /\ dc.discarded = Len(Content(State))
           /\ mb_Buffered(dc.s) = 0
           /\ ~dc.s.ringBuffer.held
           /\ dc.s.listBuffer.chunks = <<>>
           /\ Content(dc.s) = <<>>

\* A Discard(n) with n beyond the ring's and the list's bytes together was
\* made on a buffer holding both, and left nothing.
C26_Witness ==
    /\ last.op = "Discard"
    /\ last.held /\ last.rb > 0 /\ last.lb > 0
    /\ last.n > last.rb + last.lb
    /\ last.ret = last.rb + last.lb
    /\ ~ringBuffer.held
    /\ listBuffer.chunks = <<>>

\* C27: from every state of the list and for every len(p) = k, Read(p)
\* returns the first min(k, Buffered()) bytes of the list in order; the
\* chunks copied in full are gone, a chunk copied in part stays at the head
\* with exactly its uncopied suffix, and the chunks behind it are as they
\* were, in order.
C27_ListRead ==
    \A k \in 0..(MaxBytes + 1) :
        LET chunks == listBuffer.chunks
            rd == llb_Read(State, k)
            n == Min(k, llb_Buffered(listBuffer))
            rest == rd.s.listBuffer.chunks
        IN /\ rd.data = Take(Flatten(chunks), n)
           /\ llb_Buffered(rd.s.listBuffer) = llb_Buffered(listBuffer) - n
           /\ \E i \in 1..(Len(chunks) + 1) :
                \/ /\ SumLen(SubSeq(chunks, 1, i - 1)) = n
                   /\ rest = SubSeq(chunks, i, Len(chunks))
                \/ /\ i <= Len(chunks)
                   /\ \E m \in 1..(Len(chunks[i]) - 1) :
                        /\ SumLen(SubSeq(chunks, 1, i - 1)) + m = n
                        /\ rest = <<Drop(chunks[i], m)>> \o SubSeq(chunks, i + 1, Len(chunks))

\* A Read stopped inside the head chunk of a list of two chunks: both are
\* still there, the head shorter by what was read.
C27_Witness ==
    /\ last.op = "Read"
    /\ last.size = 2
    /\ last.ret > 0
    /\ last.ret = last.n
    /\ listBuffer.size = 2
    /\ listBuffer.bytes = last.lb - last.ret
    /\ Len(listBuffer.chunks[2]) > 0

\* C28: from every state of the list, WriteTo(w) with a writer that never
\* fails and accepts fewer bytes than are buffered hands w the chunks in list
\* order, stops at the chunk w accepts only in part, returns io.ErrShortWrite
\* with n the number of bytes accepted, and leaves exactly the bytes not
\* accepted, in order, the rest of that chunk at the head.
C28_ShortWrite ==
    \A w \in {x \in Writers : ~x.failing /\ x.budget < llb_Buffered(listBuffer)} :
        LET chunks == listBuffer.chunks
            r == llb_WriteTo(State, w)
            rest == r.s.listBuffer.chunks
        IN /\ r.err = "short"
           /\ r.n = w.budget
           /\ r.data = Take(Flatten(chunks), r.n)
           /\ Flatten(rest) = Drop(Flatten(chunks), r.n)
           /\ llb_Buffered(r.s.listBuffer) = llb_Buffered(listBuffer) - r.n
           /\ \E i \in 1..Len(chunks) :
                \E m \in 0..(Len(chunks[i]) - 1) :
                    /\ SumLen(SubSeq(chunks, 1, i - 1)) + m = r.n
                    /\ rest = <<Drop(chunks[i], m)>> \o SubSeq(chunks, i + 1, Len(chunks))

\* A WriteTo on a list of two chunks whose writer took part of the head chunk
\* returned io.ErrShortWrite and left both chunks, the head without the
\* bytes taken.
C28_Witness ==
    /\ last.op = "WriteTo"
    /\ last.err = "short"
    /\ last.size = 2
    /\ last.ret > 0
    /\ last.ret = last.n
    /\ listBuffer.size = 2
    /\ listBuffer.bytes = last.lb - last.ret
    /\ Len(listBuffer.chunks[2]) > 0

\* C29: no data is lost when the writer fails. From every state of the list
\* and for every writer, a WriteTo(w) that ends on an error of w.Write
\* returns that error and leaves in the list, in order, every byte w did not
\* accept.
C29_NoLossOnError ==
    \A w \in Writers :
        LET r == llb_WriteTo(State, w)
        IN r.err = "error" =>
            /\ r.data = Take(Flatten(listBuffer.chunks), r.n)
            /\ Flatten(r.s.listBuffer.chunks) = Drop(Flatten(listBuffer.chunks), r.n)

\* C30: ReadFrom(r) appends every byte it obtained from r. From every state
\* of the list and for every reader, the returned n is the growth of
\* Buffered(), the n bytes read are at the back of the list in the order
\* read, and the error is nil on io.EOF and the reader's error otherwise.
C30_ReadFromKeepsAll ==
    \A rd \in {x \in Readers : ReaderBytes(x) <= MaxBytes - written} :
        LET r == llb_ReadFrom(State, rd, written)
        IN /\ r.n = ReaderBytes(rd)
           /\ r.n = llb_Buffered(r.s.listBuffer) - llb_Buffered(listBuffer)
           /\ Flatten(r.s.listBuffer.chunks) = Flatten(listBuffer.chunks) \o Fresh(written, r.n)
           /\ r.err = (IF rd[Len(rd)].err = "EOF" THEN "nil" ELSE rd[Len(rd)].err)

\* C31: the buffer never uses a ring it does not hold. While no ring is held
\* the ring field is nil and Buffered() and IsEmpty() are the list's; a
\* Write, Writev or ReadFrom invoked then with an empty list takes a ring
\* from the pool and holds it afterwards; every other call invoked then
\* leaves the ring nil and the pool alone; and no call takes a ring unless
\* it found none held and the list empty.
C31_NoRingUnlessHeld ==
    [][/\ ~ringBuffer.held =>
            /\ ringBuffer = NilRing
            /\ mb_Buffered(State) = llb_Buffered(listBuffer)
            /\ mb_IsEmpty(State) <=> llb_IsEmpty(listBuffer)
            /\ IF last'.op \in {"Write", "Writev", "ReadFrom"} /\ llb_IsEmpty(listBuffer)
               THEN ringBuffer'.held /\ rbPool' = rbPool + 1
               ELSE ringBuffer' = NilRing /\ rbPool' = rbPool
       /\ rbPool' > rbPool =>
            /\ ~ringBuffer.held
            /\ llb_IsEmpty(listBuffer)
            /\ last'.op \in {"Write", "Writev", "ReadFrom"}
    ]_vars

\* A call that adds bytes found no ring held on a buffer that had held bytes
\* before, took a ring and put bytes in it.
C31_Witness ==
    /\ last.op \in {"Write", "Writev", "ReadFrom"}
    /\ ~last.held
    /\ last.lb = 0
    /\ ringBuffer.held
    /\ ringBuffer.buf # <<>>
    /\ written > Len(ringBuffer.buf)
    /\ llb_IsEmpty(listBuffer)

\* C32: the rings one buffer has taken from the pool and not returned are 1
\* while it holds a ring and 0 while it holds none; a ring is returned only
\* by a call that found it held, once, and the field is nil from then on, so
\* a returned ring is neither returned again nor written or read.
C32_RingBalance ==
    [][/\ rbPool = (IF ringBuffer.held THEN 1 ELSE 0)
       /\ rbPool' = (IF ringBuffer'.held THEN 1 ELSE 0)
       /\ ~ringBuffer'.held => ringBuffer' = NilRing
       /\ rbPool' < rbPool =>
            /\ ringBuffer.held
            /\ rbPool' = rbPool - 1
            /\ ringBuffer' = NilRing
    ]_vars

\* A Read emptied a ring that held bytes and returned it: none is held and
\* none is outstanding.
C32_Witness ==
    /\ last.op = "Read"
    /\ last.held
    /\ last.rb > 0
    /\ last.ret >= last.rb
    /\ ~ringBuffer.held
    /\ rbPool = 0

\* C33: in every state of the elastic buffer, IsEmpty() is true exactly when
\* Buffered() = 0.
C33_EmptyIffNoBytes == mb_IsEmpty(State) <=> mb_Buffered(State) = 0

\* C34: the linked list stays well-formed under Pop, PushFront and PushBack
\* of nodes that are not in it. head is nil exactly when tail is nil exactly
\* when size is 0; the chain from head ends, has exactly size nodes, and its
\* last node is tail, whose next is nil; a popped node is the former head
\* and has next = nil; Pop on an empty list returns nil and changes nothing.
C34_WellFormed ==
    [][LET l == listBuffer'
           chain == node_chain(l, l.head, MaxNodes + 1)
       IN /\ (l.head = Nil) <=> (l.tail = Nil)
          /\ (l.tail = Nil) <=> (l.size = 0)
          /\ Len(chain) = l.size
          /\ Len(chain) <= MaxNodes
          /\ \A i, j \in 1..Len(chain) : chain[i] = chain[j] => i = j
          /\ l.size > 0 => (chain[Len(chain)] = l.tail /\ l.next[l.tail] = Nil)
          /\ last'.op = "Pop" =>
                /\ last'.b = listBuffer.head
                /\ last'.b = Nil => l = listBuffer
                /\ last'.b # Nil =>
                    /\ l.next[last'.b] = Nil
                    /\ chain = Tail(node_chain(listBuffer, listBuffer.head, MaxNodes + 1))
    ]_vars

\* A Pop took the head of a list of three nodes; two are left, linked head
\* to tail.
C34_Witness ==
    /\ last.op = "Pop"
    /\ last.b # Nil
    /\ listBuffer.size = 2
    /\ listBuffer.head # listBuffer.tail
    /\ listBuffer.next[listBuffer.head] = listBuffer.tail
    /\ last.b > listBuffer.head
    /\ listBuffer.head > listBuffer.tail

====
